---- MODULE Spec2Model ----
(***************************************************************************)
(* A model of src/src/android/proot/ptrace.rs: the bind resolver            *)
(* (path_suffix, resolve_bind), the syscall interceptor (handle_syscall     *)
(* with read_c_string and write_bytes over the tracee's memory) and the     *)
(* trace supervisor (spawn_traced, trace_loop, TracedChild).                *)
(*                                                                         *)
(* Strings are sequences of bytes (Rust's str is UTF-8 and len(),           *)
(* starts_with and slicing all count bytes).  Option<T> is a sequence of    *)
(* length at most one: None is <<>> and Some(x) is <<x>>.                   *)
(***************************************************************************)
EXTENDS Integers, Sequences, FiniteSets, TLC

None == <<>>
Some(x) == <<x>>
IsSome(o) == Len(o) = 1
Unwrap(o) == o[1]

\* The byte '/' (b'/' at ptrace.rs:304) and a byte of an ordinary segment, 'x'.
SLASH == 47
XCHAR == 120

(***************************************************************************)
(* Bounds of the bind-resolver inputs.                                      *)
(***************************************************************************)
MaxPathLen == 3
MaxGuestLen == 2
MaxRules == 2

Alphabet == {SLASH, XCHAR}
StringsUpTo(n) == UNION {[1..k -> Alphabet] : k \in 0..n}

\* Host prefixes: without and with a trailing '/'.
Hosts == {<<XCHAR>>, <<XCHAR, SLASH>>}

\* A bind rule is the pair (host, guest) of Args.binds: Vec<(String, String)>.
Rules == Hosts \X StringsUpTo(MaxGuestLen)
RuleLists == UNION {[1..k -> Rules] : k \in 0..MaxRules}

VARIABLES
    path,       \* resolver input: the path handed to resolve_bind
    binds,      \* the rule list (host, guest) of the session
    resolved,   \* <<>> before the call, <<resolve_bind(path, binds)>> after it
    suffixes,   \* after the call: path_suffix(path, guest) of every rule, in order
    reapplied,  \* <<>> or <<resolve_bind(q, binds)>> for the resolved path q
    new_path,   \* <<>> before the call, then <<the rewrite handle_syscall derives>>
    arch,       \* target_arch of the build: "x86_64" or "aarch64"
    regs,       \* the tracee's registers: [sysno, args, sp]
    mem,        \* the tracee's memory: address -> byte
    stack_map,  \* what stack_range finds in /proc/<pid>/maps: None or Some(<<start, end>>)
    entry,      \* the registers and memory as they were at the last syscall-entry stop
    hs,         \* <<>>, or <<r>> with r what the last handle_syscall call did
    cstr,       \* the address given to read_c_string and what the call returned
    wbytes,     \* the arguments of a write_bytes call and what the call did
    command,    \* the Command: [stdout, stderr] are TRUE when piped, prog is
                \* the program it runs
    faulty,     \* whether calls of this session may fail for reasons of their own
    caller,     \* where the thread that calls spawn_traced is
    handles,    \* TracedChild.child: [stdout, stderr], each None or Some(stream)
    takes,      \* what the take_stdout / take_stderr calls made so far returned,
                \* per stream and in call order
    worker,     \* where the thread running trace_loop is
    in_syscall, \* trace_loop's flag
    deliver,    \* the signal the pending resume injects: None or Some(sig)
    result,     \* what trace_loop returned: None while it runs, then Some(r)
    wait_result,\* what TracedChild::wait returned: None before it returns
    child,      \* the child process, as the kernel sees it
    ch_insys,   \* the child is between a syscall's entry and its exit
    notif,      \* the wait status the kernel holds for waitpid: None or Some(status)
    pending,    \* a signal sent from outside and not delivered yet: None or Some(sig)
    sent,       \* the termination signal sent from outside, if any: None or Some(sig)
    used,       \* what the child has done so far: [sys, stops]
    seen,       \* the statuses waitpid has reported to trace_loop
    first_terminal, \* the first exit/kill status waitpid reported: None or Some(status)
    ncalls,     \* the number of wait and tracing calls trace_loop has issued
    calls_at_terminal, \* ncalls right after the first exit/kill status was reported
    obs         \* a record of trace_loop's calls: [last, nsys, handled, setopts,
                \* options, resumes, answer, issuers, failed]

resolverVars == <<path, resolved, suffixes, new_path, reapplied>>
traceeVars == <<arch, regs, mem, stack_map>>
callerVars == <<command, faulty, caller, handles, takes, wait_result>>
workerVars == <<worker, in_syscall, deliver, result, seen, first_terminal,
                ncalls, calls_at_terminal, obs>>
childVars == <<child, ch_insys, notif, pending, sent, used>>
sessionVars == <<callerVars, workerVars, childVars>>
vars == <<path, binds, resolved, suffixes, new_path,
          arch, regs, mem, stack_map, entry, hs, cstr, wbytes, sessionVars>>

----------------------------------------------------------------------------
(***************************************************************************)
(* Bind resolver                                                           *)
(***************************************************************************)

starts_with(s, prefix) ==
    /\ Len(prefix) <= Len(s)
    /\ SubSeq(s, 1, Len(prefix)) = prefix

ends_with(s, c) == Len(s) > 0 /\ s[Len(s)] = c

\* &path[n..]
slice_from(s, n) == SubSeq(s, n + 1, Len(s))

\* A plausible slip: the segment-boundary test (lines 301-307) left out.
path_suffix_any_prefix(p, guest) ==
    IF guest = <<>> \/ ~starts_with(p, guest) THEN None
    ELSE Some(slice_from(p, Len(guest)))

\* A plausible slip: the is_empty() test of line 295 left out.
path_suffix_empty_guest(p, guest) ==
    IF ~starts_with(p, guest) THEN None
    ELSE IF Len(p) = Len(guest) THEN Some(<<>>)
    ELSE IF ends_with(guest, SLASH) THEN Some(slice_from(p, Len(guest)))
    ELSE IF p[Len(guest) + 1] = SLASH THEN Some(slice_from(p, Len(guest)))
    ELSE None

path_suffix(p, guest) ==
    IF guest = <<>> \/ ~starts_with(p, guest) THEN None
    ELSE IF Len(p) = Len(guest) THEN Some(<<>>)
    ELSE IF ends_with(guest, SLASH) THEN Some(slice_from(p, Len(guest)))
    ELSE IF p[Len(guest) + 1] = SLASH THEN Some(slice_from(p, Len(guest)))
    ELSE None

\* A plausible slip: every matching rule replaces the best one (last match wins).
take_rule_always(best, guest) == TRUE

\* A plausible slip: `>=` for `>`, so that among equally long guests the last
\* matching rule wins.
take_rule_on_ties(best, guest) ==
    IF best = None THEN TRUE
    ELSE Len(guest) >= Len(Unwrap(best)[2])

\* `take` of lines 316-319; best is None or Some(<<host, guest>>).
take_rule(best, guest) ==
    IF best = None THEN TRUE
    ELSE Len(guest) > Len(Unwrap(best)[2])

\* The loop of lines 314-325 from rule i on; acc = [best, best_suffix].
RECURSIVE resolve_scan(_, _, _, _)
resolve_scan(p, rules, i, acc) ==
    IF i > Len(rules) THEN acc
    ELSE LET host   == rules[i][1]
             guest  == rules[i][2]
             suffix == path_suffix(p, guest)
         IN  IF IsSome(suffix) /\ take_rule(acc.best, guest)
             THEN resolve_scan(p, rules, i + 1,
                               [best |-> Some(<<host, guest>>),
                                best_suffix |-> Unwrap(suffix)])
             ELSE resolve_scan(p, rules, i + 1, acc)

\* A plausible slip: the separator is always inserted.
join_path_always_slash(host, best_suffix) ==
    IF best_suffix = <<>> THEN host
    ELSE host \o <<SLASH>> \o best_suffix

\* A plausible slip: a doubled separator is collapsed when both sides
\* supply one.
join_path_collapses(host, best_suffix) ==
    IF best_suffix = <<>> THEN host
    ELSE IF ends_with(host, SLASH) /\ starts_with(best_suffix, <<SLASH>>)
         THEN host \o Tail(best_suffix)
    ELSE IF ends_with(host, SLASH) \/ starts_with(best_suffix, <<SLASH>>)
         THEN host \o best_suffix
    ELSE host \o <<SLASH>> \o best_suffix

\* The closure of lines 327-335.
join_path(host, best_suffix) ==
    IF best_suffix = <<>> THEN host
    ELSE IF ends_with(host, SLASH) \/ starts_with(best_suffix, <<SLASH>>)
         THEN host \o best_suffix
    ELSE host \o <<SLASH>> \o best_suffix

\* A plausible slip: a path no rule matches is mapped by the first rule.
resolve_bind_falls_back(p, rules) ==
    LET acc == resolve_scan(p, rules, 1, [best |-> None, best_suffix |-> <<>>])
    IN  IF acc.best = None
        THEN IF rules = <<>> THEN None ELSE Some(join_path(rules[1][1], p))
        ELSE Some(join_path(Unwrap(acc.best)[1], acc.best_suffix))

\* resolve_bind (lines 310-336).
resolve_bind(p, rules) ==
    LET acc == resolve_scan(p, rules, 1, [best |-> None, best_suffix |-> <<>>])
    IN  IF acc.best = None THEN None
        ELSE Some(join_path(Unwrap(acc.best)[1], acc.best_suffix))

\* A plausible slip: the `new_path == path` skip of lines 395-397 left out.
rewrite_target_no_skip(p, rules) == resolve_bind(p, rules)

\* What handle_syscall derives for one path (lines 392-397): the resolved
\* path, unless there is none or it is the path itself.
rewrite_target(p, rules) ==
    LET r == resolve_bind(p, rules)
    IN  IF r = None THEN None
        ELSE IF Unwrap(r) = p THEN None
        ELSE r


----------------------------------------------------------------------------
(***************************************************************************)
(* Remote memory access and the ABI layer                                  *)
(*                                                                         *)
(* The tracee's memory is a function from addresses to bytes; Mapped is    *)
(* the set of addresses a PTRACE_PEEKDATA / PTRACE_POKEDATA can reach.  A  *)
(* word access touches WORD bytes and fails unless all of them are mapped. *)
(***************************************************************************)

\* mem::size_of::<libc::c_long>() on both supported (64-bit) targets.
WORD == 8
MAX_PATH == 4096
\* The x86_64 red zone skipped below the stack pointer.
RED_ZONE == 128

\* Layout of the modelled address space: nothing is mapped below the stack
\* (address 0 is the null pointer), the [stack] region is
\* [StackLo, StackHi), and the program's data lie in [DataLo, MemSize).
StackLo == 16
StackSize == 176
DataSize == 56
StackHi == StackLo + StackSize
DataLo == StackHi + WORD
MemSize == DataLo + DataSize

Addrs == 0..(MemSize - 1)
Mapped == (StackLo..(StackHi - 1)) \cup (DataLo..(MemSize - 1))

\* A byte that is neither NUL nor part of any path: what unrelated memory holds.
FILL == 170

NoTracee ==
    /\ arch = "none"
    /\ regs = <<>>
    /\ mem = <<>>
    /\ stack_map = None
    /\ entry = <<>>
    /\ hs = <<>>
    /\ cstr = <<>> /\ wbytes = <<>>

\* No session: the state of the session variables where only a pure function
\* or a single handle_syscall call is exercised.
NoSession ==
    /\ command = <<>> /\ faulty = FALSE
    /\ caller = "none" /\ handles = <<>> /\ takes = <<>>
    /\ wait_result = None
    /\ worker = "none" /\ in_syscall = FALSE /\ deliver = None /\ result = None
    /\ seen = {} /\ first_terminal = None /\ ncalls = 0 /\ calls_at_terminal = 0
    /\ obs = <<>>
    /\ child = "none" /\ ch_insys = FALSE /\ notif = None /\ pending = None
    /\ sent = None /\ used = <<>>

word_mapped(mapped, addr) == \A k \in 0..(WORD - 1) : (addr + k) \in mapped

\* ptrace::read: the WORD bytes at addr in native (little-endian) order.
peek_word(m, addr) == [i \in 1..WORD |-> m[addr + i - 1]]

\* ptrace::write: the WORD bytes of word stored at addr.
poke_word(m, addr, word) ==
    [a \in DOMAIN m |-> IF a >= addr /\ a < addr + WORD THEN word[a - addr + 1]
                        ELSE m[a]]

Call(op, addr) == [op |-> op, addr |-> addr]

(***************************************************************************)
(* String::from_utf8_lossy: valid UTF-8 is kept, every maximal invalid     *)
(* piece becomes U+FFFD (the three bytes EF BF BD).                        *)
(***************************************************************************)
REPLACEMENT_CHARACTER == <<239, 191, 189>>

utf8_char_width(b) ==
    IF b < 128 THEN 1
    ELSE IF b >= 194 /\ b <= 223 THEN 2
    ELSE IF b >= 224 /\ b <= 239 THEN 3
    ELSE IF b >= 240 /\ b <= 244 THEN 4
    ELSE 0

is_cont(b) == b >= 128 /\ b <= 191

second_of_3_ok(b, c) ==
    \/ b = 224 /\ c >= 160 /\ c <= 191
    \/ b >= 225 /\ b <= 236 /\ is_cont(c)
    \/ b = 237 /\ c >= 128 /\ c <= 159
    \/ b >= 238 /\ b <= 239 /\ is_cont(c)

second_of_4_ok(b, c) ==
    \/ b = 240 /\ c >= 144 /\ c <= 191
    \/ b >= 241 /\ b <= 243 /\ is_cont(c)
    \/ b = 244 /\ c >= 128 /\ c <= 143

RECURSIVE from_utf8_lossy(_)
from_utf8_lossy(bs) ==
    IF \A i \in 1..Len(bs) : bs[i] < 128 THEN bs
    ELSE
      LET b       == bs[1]
          w       == utf8_char_width(b)
          get(i)  == IF i <= Len(bs) THEN bs[i] ELSE 0
          rest(n) == SubSeq(bs, n + 1, Len(bs))
          keep(n) == SubSeq(bs, 1, n) \o from_utf8_lossy(rest(n))
          bad(n)  == REPLACEMENT_CHARACTER \o from_utf8_lossy(rest(n))
      IN  IF w = 1 THEN keep(1)
          ELSE IF w = 2 THEN (IF is_cont(get(2)) THEN keep(2) ELSE bad(1))
          ELSE IF w = 3 THEN
              (IF ~second_of_3_ok(b, get(2)) THEN bad(1)
               ELSE IF ~is_cont(get(3)) THEN bad(2)
               ELSE keep(3))
          ELSE IF w = 4 THEN
              (IF ~second_of_4_ok(b, get(2)) THEN bad(1)
               ELSE IF ~is_cont(get(3)) THEN bad(2)
               ELSE IF ~is_cont(get(4)) THEN bad(3)
               ELSE keep(4))
          ELSE bad(1)

(***************************************************************************)
(* read_c_string (lines 242-265).  The result is                           *)
(* [ok, path, len, calls]: path is the lossily decoded string, len the     *)
(* number of raw bytes before the NUL, calls the words read.               *)
(***************************************************************************)

\* The inner loop over one word (lines 250-260), from byte i of the chunk.
RECURSIVE scan_chunk(_, _, _, _)
scan_chunk(chunk, i, bytes, offset) ==
    IF i > WORD THEN [nul |-> FALSE, bytes |-> bytes, offset |-> offset]
    ELSE IF chunk[i] = 0 THEN [nul |-> TRUE, bytes |-> bytes, offset |-> offset]
    ELSE IF offset + 1 >= MAX_PATH
         THEN [nul |-> FALSE, bytes |-> Append(bytes, chunk[i]), offset |-> offset + 1]
    ELSE scan_chunk(chunk, i + 1, Append(bytes, chunk[i]), offset + 1)

\* Mutant: the loop ends at a NUL only, not at MAX_PATH bytes.
loop_ends_on_nul_only(s) == s.done

\* `while offset < MAX_PATH` (line 247) and the return of line 253, on the
\* loop's state [done, ok, bytes, offset, calls].
loop_ends(s) == s.done \/ ~(s.offset < MAX_PATH)

\* One iteration of the outer loop (lines 248-260).
read_word(m, mapped, addr, s) ==
    IF ~word_mapped(mapped, addr + s.offset)
    THEN [s EXCEPT !.done = TRUE, !.ok = FALSE,
                   !.calls = Append(s.calls, Call("peek", addr + s.offset))]
    ELSE CHOOSE r \in
           {[done |-> c.nul, ok |-> TRUE, bytes |-> c.bytes, offset |-> c.offset,
             calls |-> Append(s.calls, Call("peek", addr + s.offset))] :
              c \in {scan_chunk(peek_word(m, addr + s.offset), 1,
                                s.bytes, s.offset)}} : TRUE

\* The iterations of the outer loop are evaluated ReadBlock at a time.
ReadBlock == 32

\* At most n iterations of the outer loop from state s.
RECURSIVE read_words(_, _, _, _, _)
read_words(m, mapped, addr, s, n) ==
    IF n = 0 \/ loop_ends(s) THEN s
    ELSE CHOOSE r \in
           {read_words(m, mapped, addr, s2, n - 1) :
              s2 \in {read_word(m, mapped, addr, s)}} : TRUE

\* The outer loop (lines 247-261) from byte offset on, and the two returns.
RECURSIVE read_loop(_, _, _, _, _, _)
read_loop(m, mapped, addr, bytes, offset, calls) ==
    CHOOSE r \in
      {IF ~loop_ends(s)
       THEN read_loop(m, mapped, addr, s.bytes, s.offset, s.calls)
       ELSE IF ~s.ok
       THEN [ok |-> FALSE, path |-> <<>>, len |-> 0, calls |-> s.calls]
       ELSE [ok |-> TRUE, path |-> from_utf8_lossy(s.bytes),
             len |-> Len(s.bytes), calls |-> s.calls] :
         s \in {read_words(m, mapped, addr,
                           [done |-> FALSE, ok |-> TRUE, bytes |-> bytes,
                            offset |-> offset, calls |-> calls],
                           ReadBlock)}} : TRUE

read_c_string(m, mapped, addr) == read_loop(m, mapped, addr, <<>>, 0, <<>>)

(***************************************************************************)
(* write_bytes (lines 267-292).  The result is [ok, mem, calls].           *)
(***************************************************************************)
Min(a, b) == IF a < b THEN a ELSE b

\* A plausible slip: the tail of the last word is not read back (lines 276-280
\* left out), so the bytes after the payload become zero.
last_word_zero_tail(m, addr, bytes, offset) ==
    LET chunk_len == Min(offset + WORD, Len(bytes)) - offset
    IN  [i \in 1..WORD |-> IF i <= chunk_len THEN bytes[offset + i] ELSE 0]

\* The word stored at addr + offset (lines 272-280): the next bytes of the
\* payload, completed with what the tracee's word holds after them.
spliced_word(m, addr, bytes, offset) ==
    LET chunk_len == Min(offset + WORD, Len(bytes)) - offset
        existing  == peek_word(m, addr + offset)
    IN  [i \in 1..WORD |-> IF i <= chunk_len THEN bytes[offset + i]
                           ELSE existing[i]]

\* mapped is where ptrace::read succeeds, writable where ptrace::write does.
RECURSIVE write_loop(_, _, _, _, _, _, _)
write_loop(m, mapped, writable, addr, bytes, offset, calls) ==
    IF ~(offset < Len(bytes)) THEN [ok |-> TRUE, mem |-> m, calls |-> calls]
    ELSE
      LET chunk_len == Min(offset + WORD, Len(bytes)) - offset
          partial   == chunk_len < WORD
          cs        == IF partial THEN Append(calls, Call("peek", addr + offset))
                       ELSE calls
      IN  IF partial /\ ~word_mapped(mapped, addr + offset)
          THEN [ok |-> FALSE, mem |-> m, calls |-> cs]
          ELSE IF ~word_mapped(writable, addr + offset)
          THEN [ok |-> FALSE, mem |-> m,
                calls |-> Append(cs, Call("poke", addr + offset))]
          ELSE CHOOSE r \in
                 {write_loop(m2, mapped, writable, addr, bytes, offset + WORD, cs2) :
                    m2 \in {poke_word(m, addr + offset,
                                      spliced_word(m, addr, bytes, offset))},
                    cs2 \in {Append(cs, Call("poke", addr + offset))}} : TRUE

write_bytes(m, mapped, writable, addr, bytes) ==
    write_loop(m, mapped, writable, addr, bytes, 0, <<>>)

(***************************************************************************)
(* ABI layer.  Registers are [sysno, args, sp]; args maps the slots 0..5   *)
(* to rdi, rsi, rdx, r10, r8, r9 (x86_64) or regs[0..5] (aarch64).  A      *)
(* syscall is named as libc names its number (libc::SYS_<name>).           *)
(***************************************************************************)

syscall_path_args(a, sysno) ==
    IF a = "aarch64" THEN
        CASE sysno \in {"openat", "openat2", "statx", "faccessat", "faccessat2",
                        "readlinkat", "execveat", "mkdirat", "unlinkat"} -> <<1>>
          [] sysno \in {"execve", "chdir", "chroot"} -> <<0>>
          [] sysno = "symlinkat" -> <<2>>
          [] sysno \in {"linkat", "renameat", "renameat2"} -> <<1, 3>>
          [] OTHER -> <<>>
    ELSE IF a = "x86_64" THEN
        CASE sysno \in {"open", "stat", "lstat", "access", "readlink", "execve",
                        "mkdir", "unlink", "chdir", "chroot"} -> <<0>>
          [] sysno \in {"openat", "openat2", "newfstatat", "statx", "faccessat",
                        "faccessat2", "readlinkat", "execveat", "mkdirat",
                        "unlinkat"} -> <<1>>
          [] sysno = "symlink" -> <<1>>
          [] sysno = "symlinkat" -> <<2>>
          [] sysno \in {"link", "rename"} -> <<0, 1>>
          [] sysno \in {"linkat", "renameat", "renameat2"} -> <<1, 3>>
          [] OTHER -> <<>>
    ELSE <<>>

syscall_arg(r, index) == IF index \in DOMAIN r.args THEN r.args[index] ELSE 0

set_syscall_arg(r, index, value) ==
    IF index \in DOMAIN r.args
    THEN [r EXCEPT !.args = [r.args EXCEPT ![index] = value]]
    ELSE r

stack_pointer(r) == r.sp

saturating_sub(a, b) == IF a >= b THEN a - b ELSE 0

\* (new_total + word_size - 1) & !(word_size - 1)
align_up(n) == ((n + WORD - 1) \div WORD) * WORD

\* stack_range(pid).map(|(start, _)| start)
stack_range_start(sm) == IF sm = None THEN None ELSE Some(Unwrap(sm)[1])

(***************************************************************************)
(* handle_syscall (lines 353-442).                                         *)
(*                                                                         *)
(* The loop over the non-null path arguments threads the record            *)
(*   [mem, regs, cursor, stack_start, regs_changed, failed, log, calls,    *)
(*    writable]                                                            *)
(* where regs is the local copy of the registers, log has one entry per    *)
(* argument processed, with the scratch cursor, the number of calls issued *)
(* and the tracee's memory once it is done, calls lists every tracing call *)
(* and /proc read in issue order, and writable is where ptrace::write      *)
(* succeeds during this stop.                                              *)
(***************************************************************************)

\* (arg, addr) of every path slot holding a non-null pointer (lines 366-372).
\* Mutant: null pointers are kept among the arguments to rewrite.
RECURSIVE collect_arg_addrs_with_null(_, _, _)
collect_arg_addrs_with_null(r, args, i) ==
    IF i > Len(args) THEN <<>>
    ELSE << <<args[i], syscall_arg(r, args[i])>> >>
         \o collect_arg_addrs_with_null(r, args, i + 1)

RECURSIVE collect_arg_addrs(_, _, _)
collect_arg_addrs(r, args, i) ==
    IF i > Len(args) THEN <<>>
    ELSE LET addr == syscall_arg(r, args[i])
         IN  (IF addr # 0 THEN << <<args[i], addr>> >> ELSE <<>>)
             \o collect_arg_addrs(r, args, i + 1)

\* A plausible slip: the terminating NUL is not pushed (line 423 left out).
payload_without_nul(new, pad_len) == new

\* Mutant: the payload is never padded to the old string's length.
payload_unpadded(new, pad_len) == Append(new, 0)

\* The payload of lines 421-428: the new path, its NUL, and zero padding up
\* to pad_len when the write is in place.
payload_of(new, pad_len) ==
    LET base == Append(new, 0)
    IN  IF pad_len # None /\ Len(base) < Unwrap(pad_len)
        THEN base \o [k \in 1..(Unwrap(pad_len) - Len(base)) |-> 0]
        ELSE base

LogEntry(arg, addr, outcome, old_path, old_len, new, write_addr) ==
    [arg |-> arg, addr |-> addr, outcome |-> outcome, path |-> old_path,
     old_len |-> old_len, new_path |-> new, write_addr |-> write_addr,
     cursor |-> 0, calls_end |-> 0, mem_after |-> <<>>]

\* The in-place branch (line 402 and lines 421-434): the padded payload is
\* written over the original string and the registers stay as they are.
write_in_place(st, mapped, arg, addr, rd, new) ==
    CHOOSE r \in
      {[st EXCEPT !.mem = w.mem,
                  !.calls = st.calls \o w.calls,
                  !.failed = ~w.ok,
                  !.log = Append(st.log,
                      LogEntry(arg, addr,
                               IF w.ok THEN "in_place" ELSE "write_failed",
                               rd.path, rd.len, new, addr))] :
         w \in {write_bytes(st.mem, mapped, st.writable, addr,
                            payload_of(new, Some(rd.len + 1)))}} : TRUE

\* The write of lines 421-434 for a string carved at next (lines 417-418).
write_relocated(st, mapped, arg, addr, rd, new, next) ==
    CHOOSE r \in
      {IF ~w.ok
       THEN [st EXCEPT !.mem = w.mem,
                       !.cursor = next,
                       !.calls = st.calls \o w.calls,
                       !.failed = TRUE,
                       !.log = Append(st.log,
                           LogEntry(arg, addr, "write_failed",
                                    rd.path, rd.len, new, next))]
       ELSE [st EXCEPT !.mem = w.mem,
                       !.cursor = next,
                       !.calls = st.calls \o w.calls,
                       !.regs = IF next # addr
                                THEN set_syscall_arg(st.regs, arg, next)
                                ELSE st.regs,
                       !.regs_changed = st.regs_changed \/ next # addr,
                       !.log = Append(st.log,
                           LogEntry(arg, addr, "relocated",
                                    rd.path, rd.len, new, next))] :
         w \in {write_bytes(st.mem, mapped, st.writable, next,
                            payload_of(new, None))}} : TRUE

\* `aligned` of line 407.
carve_len(new_total) == align_up(new_total)

\* Mutant: the carved address is only checked against underflow.
relocate_without_bound(st, mapped, sm, arg, addr, rd, new) ==
    LET query   == st.stack_start = None
        start   == IF query THEN stack_range_start(sm) ELSE st.stack_start
        s2      == [st EXCEPT !.stack_start = start,
                              !.calls = IF query
                                        THEN Append(st.calls, Call("maps", 0))
                                        ELSE st.calls]
        aligned == carve_len(Len(new) + 1)
    IN  IF ~(st.cursor >= aligned)
        THEN [s2 EXCEPT !.log = Append(s2.log,
                 LogEntry(arg, addr, "no_fit", rd.path, rd.len, new, addr))]
        ELSE write_relocated(s2, mapped, arg, addr, rd, new, st.cursor - aligned)

\* The relocation branch (lines 404-418): the stack's start is looked up if
\* it is not known yet, and the string is carved below the scratch cursor
\* unless that underflows or falls below start + word_size.
relocate(st, mapped, sm, arg, addr, rd, new) ==
    LET query   == st.stack_start = None
        start   == IF query THEN stack_range_start(sm) ELSE st.stack_start
        s2      == [st EXCEPT !.stack_start = start,
                              !.calls = IF query
                                        THEN Append(st.calls, Call("maps", 0))
                                        ELSE st.calls]
        aligned == carve_len(Len(new) + 1)
        fits    == /\ st.cursor >= aligned
                   /\ start # None =>
                         ~(st.cursor - aligned < Unwrap(start) + WORD)
    IN  IF ~fits
        THEN [s2 EXCEPT !.log = Append(s2.log,
                 LogEntry(arg, addr, "no_fit", rd.path, rd.len, new, addr))]
        ELSE write_relocated(s2, mapped, arg, addr, rd, new, st.cursor - aligned)

\* Lines 392-419 for a string that was read: resolve, skip, choose the place.
place_arg(st, mapped, rules, sm, arg, addr, rd) ==
    CHOOSE r \in
      {IF target = None
       THEN [st EXCEPT !.log = Append(st.log,
                LogEntry(arg, addr, "no_rewrite", rd.path, rd.len, <<>>, addr))]
       ELSE IF Len(Unwrap(target)) <= rd.len
       THEN write_in_place(st, mapped, arg, addr, rd, Unwrap(target))
       ELSE relocate(st, mapped, sm, arg, addr, rd, Unwrap(target)) :
         target \in {rewrite_target(rd.path, rules)}} : TRUE

\* Mutant: a failed read_c_string propagates like a failed write.
rewrite_arg_read_fatal(st, mapped, rules, sm, arg, addr) ==
    CHOOSE r \in
      {IF ~rd.ok
       THEN [st EXCEPT !.calls = st.calls \o rd.calls,
                       !.failed = TRUE,
                       !.log = Append(st.log,
                           LogEntry(arg, addr, "read_failed", <<>>, 0, <<>>, addr))]
       ELSE place_arg([st EXCEPT !.calls = st.calls \o rd.calls],
                      mapped, rules, sm, arg, addr, rd) :
         rd \in {read_c_string(st.mem, mapped, addr)}} : TRUE

\* One iteration of the loop of lines 388-435.
rewrite_arg(st, mapped, rules, sm, arg, addr) ==
    CHOOSE r \in
      {IF ~rd.ok
       THEN [st EXCEPT !.calls = st.calls \o rd.calls,
                       !.log = Append(st.log,
                           LogEntry(arg, addr, "read_failed", <<>>, 0, <<>>, addr))]
       ELSE place_arg([st EXCEPT !.calls = st.calls \o rd.calls],
                      mapped, rules, sm, arg, addr, rd) :
         rd \in {read_c_string(st.mem, mapped, addr)}} : TRUE

\* The loop of lines 388-435; `?` on write_bytes leaves it at the first failure.
RECURSIVE rewrite_args(_, _, _, _, _, _)
rewrite_args(st, mapped, rules, sm, arg_addrs, i) ==
    IF i > Len(arg_addrs) \/ st.failed THEN st
    ELSE CHOOSE r \in
           {rewrite_args([st2 EXCEPT !.log[Len(st2.log)].cursor = st2.cursor,
                                     !.log[Len(st2.log)].calls_end = Len(st2.calls),
                                     !.log[Len(st2.log)].mem_after = st2.mem],
                         mapped, rules, sm, arg_addrs, i + 1) :
              st2 \in {rewrite_arg(st, mapped, rules, sm,
                                   arg_addrs[i][1], arg_addrs[i][2])}} : TRUE

\* Mutant: no red zone is left below the stack pointer.
initial_cursor_no_red_zone(a, r) == stack_pointer(r)

\* The scratch cursor's first value (lines 380-384).
initial_cursor(a, r) ==
    IF a = "x86_64" THEN saturating_sub(stack_pointer(r), RED_ZONE)
    ELSE stack_pointer(r)

HsResult(ok, r, m, log, calls) ==
    [ok |-> ok, regs |-> r, mem |-> m, log |-> log, calls |-> calls]

\* handle_syscall on a tracee with registers r0 and memory m0.  fault names
\* the call that fails for a reason of its own ("getregs", "setregs", or
\* "poke" for every ptrace::write) or is "none".  The result holds the
\* tracee's registers and memory afterwards.
\* Mutant: the registers are written back whenever an argument was rewritten,
\* in place or not.
rewrite_and_set_regs_always(a, r0, m0, mapped, rules, sm, fault, arg_addrs, got) ==
    CHOOSE r \in
      {IF st.failed THEN HsResult(FALSE, r0, st.mem, st.log, st.calls)
       ELSE IF \E k \in 1..Len(st.log) :
                  st.log[k].outcome \in {"in_place", "relocated"}
       THEN (IF fault = "setregs"
             THEN HsResult(FALSE, r0, st.mem, st.log,
                           Append(st.calls, Call("setregs", 0)))
             ELSE HsResult(TRUE, st.regs, st.mem, st.log,
                           Append(st.calls, Call("setregs", 0))))
       ELSE HsResult(TRUE, r0, st.mem, st.log, st.calls) :
         st \in {rewrite_args([mem |-> m0, regs |-> r0,
                               cursor |-> initial_cursor(a, r0),
                               stack_start |-> None, regs_changed |-> FALSE,
                               failed |-> FALSE, log |-> <<>>, calls |-> got,
                               writable |-> IF fault = "poke" THEN {}
                                            ELSE mapped],
                              mapped, rules, sm, arg_addrs, 1)}} : TRUE

\* Mutant: the registers are written back at each relocation, so a later
\* failure leaves the slots changed so far in the tracee.
rewrite_and_set_regs_eagerly(a, r0, m0, mapped, rules, sm, fault, arg_addrs, got) ==
    CHOOSE r \in
      {IF st.failed THEN HsResult(FALSE, st.regs, st.mem, st.log, st.calls)
       ELSE IF st.regs_changed
       THEN (IF fault = "setregs"
             THEN HsResult(FALSE, r0, st.mem, st.log,
                           Append(st.calls, Call("setregs", 0)))
             ELSE HsResult(TRUE, st.regs, st.mem, st.log,
                           Append(st.calls, Call("setregs", 0))))
       ELSE HsResult(TRUE, r0, st.mem, st.log, st.calls) :
         st \in {rewrite_args([mem |-> m0, regs |-> r0,
                               cursor |-> initial_cursor(a, r0),
                               stack_start |-> None, regs_changed |-> FALSE,
                               failed |-> FALSE, log |-> <<>>, calls |-> got,
                               writable |-> IF fault = "poke" THEN {}
                                            ELSE mapped],
                              mapped, rules, sm, arg_addrs, 1)}} : TRUE

\* Lines 378-441, once the non-null path arguments are known.
rewrite_and_set_regs(a, r0, m0, mapped, rules, sm, fault, arg_addrs, got) ==
    CHOOSE r \in
      {IF st.failed THEN HsResult(FALSE, r0, st.mem, st.log, st.calls)
       ELSE IF st.regs_changed
       THEN (IF fault = "setregs"
             THEN HsResult(FALSE, r0, st.mem, st.log,
                           Append(st.calls, Call("setregs", 0)))
             ELSE HsResult(TRUE, st.regs, st.mem, st.log,
                           Append(st.calls, Call("setregs", 0))))
       ELSE HsResult(TRUE, r0, st.mem, st.log, st.calls) :
         st \in {rewrite_args([mem |-> m0, regs |-> r0,
                               cursor |-> initial_cursor(a, r0),
                               stack_start |-> None, regs_changed |-> FALSE,
                               failed |-> FALSE, log |-> <<>>, calls |-> got,
                               writable |-> IF fault = "poke" THEN {}
                                            ELSE mapped],
                              mapped, rules, sm, arg_addrs, 1)}} : TRUE

\* Mutant: the registers are read before the rule list is looked at.
handle_syscall_reads_regs_first(a, r0, m0, mapped, rules, sm, fault) ==
    IF fault = "getregs"
    THEN HsResult(FALSE, r0, m0, <<>>, <<Call("getregs", 0)>>)
    ELSE IF rules = <<>> \/ syscall_path_args(a, r0.sysno) = <<>>
    THEN HsResult(TRUE, r0, m0, <<>>, <<Call("getregs", 0)>>)
    ELSE CHOOSE r \in
           {IF arg_addrs = <<>>
            THEN HsResult(TRUE, r0, m0, <<>>, <<Call("getregs", 0)>>)
            ELSE rewrite_and_set_regs(a, r0, m0, mapped, rules, sm, fault,
                                      arg_addrs, <<Call("getregs", 0)>>) :
              arg_addrs \in {collect_arg_addrs(r0,
                                 syscall_path_args(a, r0.sysno), 1)}} : TRUE

\* Lines 353-442.
handle_syscall(a, r0, m0, mapped, rules, sm, fault) ==
    IF rules = <<>> THEN HsResult(TRUE, r0, m0, <<>>, <<>>)
    ELSE IF fault = "getregs"
    THEN HsResult(FALSE, r0, m0, <<>>, <<Call("getregs", 0)>>)
    ELSE IF syscall_path_args(a, r0.sysno) = <<>>
    THEN HsResult(TRUE, r0, m0, <<>>, <<Call("getregs", 0)>>)
    ELSE CHOOSE r \in
           {IF arg_addrs = <<>>
            THEN HsResult(TRUE, r0, m0, <<>>, <<Call("getregs", 0)>>)
            ELSE rewrite_and_set_regs(a, r0, m0, mapped, rules, sm, fault,
                                      arg_addrs, <<Call("getregs", 0)>>) :
              arg_addrs \in {collect_arg_addrs(r0,
                                 syscall_path_args(a, r0.sysno), 1)}} : TRUE

----------------------------------------------------------------------------
(***************************************************************************)
(* SpecResolve: the resolver applied to every bounded input.               *)
(***************************************************************************)

InitResolve ==
    /\ path \in StringsUpTo(MaxPathLen)
    /\ binds \in RuleLists
    /\ resolved = <<>>
    /\ suffixes = <<>>
    /\ new_path = <<>>
    /\ reapplied = <<>>
    /\ NoTracee
    /\ NoSession

Resolve ==
    /\ resolved = <<>>
    /\ resolved' = <<resolve_bind(path, binds)>>
    /\ suffixes' = [i \in 1..Len(binds) |-> path_suffix(path, binds[i][2])]
    /\ new_path' = <<rewrite_target(path, binds)>>
    /\ UNCHANGED <<path, binds, cstr, wbytes, reapplied, traceeVars, entry, hs, sessionVars>>

\* resolve_bind is called again, on the path the first call returned.
ResolveAgain ==
    /\ resolved # <<>> /\ resolved[1] # None
    /\ reapplied = <<>>
    /\ reapplied' = <<resolve_bind(Unwrap(resolved[1]), binds)>>
    /\ UNCHANGED <<path, binds, cstr, wbytes, resolved, suffixes, new_path, traceeVars, entry,
                   hs, sessionVars>>

NextResolve == Resolve \/ ResolveAgain

SpecResolve == InitResolve /\ [][NextResolve]_vars

----------------------------------------------------------------------------
(***************************************************************************)
(* SpecSyscall: handle_syscall at one syscall-entry stop, for every        *)
(* bounded choice of architecture, syscall, argument pointers, stack       *)
(* pointer, rule list and /proc/<pid>/maps outcome.                        *)
(***************************************************************************)

Str(m, addr, bytes) ==
    [a \in DOMAIN m |-> IF a >= addr /\ a < addr + Len(bytes) THEN bytes[a - addr + 1]
                        ELSE IF a = addr + Len(bytes) THEN 0
                        ELSE m[a]]

\* Where the program keeps its path strings.
AddrShort == DataLo              \* "/xx/x"
AddrLong  == DataLo + WORD       \* "/x/x"
AddrTail  == AddrLong + 2        \* the "/x" inside "/x/x"
AddrLossy == DataLo + 2 * WORD   \* "/x/" and the byte FF, not UTF-8
AddrEdge  == MemSize - 6         \* "/x/x" ending in the last mapped word
AddrBad   == StackLo - WORD      \* not mapped

InitialMem ==
    LET m0 == [a \in Addrs |-> FILL]
        m1 == Str(m0, AddrShort, <<SLASH, XCHAR, XCHAR, SLASH, XCHAR>>)
        m2 == Str(m1, AddrLong, <<SLASH, XCHAR, SLASH, XCHAR>>)
        m3 == Str(m2, AddrLossy, <<SLASH, XCHAR, SLASH, 255>>)
    IN  Str(m3, AddrEdge, <<SLASH, XCHAR, SLASH, XCHAR>>)

Pointers == {0, AddrShort, AddrLong, AddrTail, AddrLossy, AddrEdge, AddrBad}

\* Stack pointers: far above the bottom of the stack, close to it with room
\* for one relocated path or for none, below it.
StackPointers == {StackLo + 160, StackLo + 24, StackLo + 16, StackLo - WORD}

Syscalls == {"open", "openat", "rename", "renameat", "symlinkat", "getpid"}

\* guest "/xx" -> host "/x" (shorter), guest "/x" -> a host longer than a
\* word, guest "/x" -> host "/x" (the same path), guest "/xx" -> host "/"
\* (shorter by two bytes).
RuleShorter == << <<SLASH, XCHAR>>, <<SLASH, XCHAR, XCHAR>> >>
RuleLonger  == << <<SLASH, XCHAR, XCHAR, XCHAR, XCHAR, XCHAR, XCHAR, XCHAR,
                    XCHAR, XCHAR>>, <<SLASH, XCHAR>> >>
RuleSame    == << <<SLASH, XCHAR>>, <<SLASH, XCHAR>> >>
RuleRoot    == << <<SLASH>>, <<SLASH, XCHAR, XCHAR>> >>
BindChoices == {<<>>, <<RuleShorter>>, <<RuleLonger>>,
                <<RuleShorter, RuleLonger>>, <<RuleSame>>, <<RuleRoot>>}

EntryRegs(sysno, pa, pb, sp) ==
    [sysno |-> sysno,
     args  |-> [i \in 0..5 |-> CASE i = 1 -> pb
                                 [] i \in {0, 2, 3} -> pa
                                 [] OTHER -> i],
     sp    |-> sp]

Faults == {"none", "getregs", "setregs", "poke"}

InitSyscall ==
    /\ path = <<>> /\ resolved = <<>> /\ suffixes = <<>> /\ new_path = <<>>
    /\ reapplied = <<>>
    /\ binds \in BindChoices
    /\ arch \in {"x86_64", "aarch64"}
    /\ \E sysno \in Syscalls, pa \in Pointers, pb \in Pointers, sp \in StackPointers :
           regs = EntryRegs(sysno, pa, pb, sp)
    /\ mem = InitialMem
    /\ stack_map \in {None, Some(<<StackLo, StackHi>>)}
    /\ entry = [regs |-> regs, mem |-> mem]
    /\ hs = <<>>
    /\ cstr = <<>> /\ wbytes = <<>>
    /\ NoSession

Intercept ==
    /\ hs = <<>>
    /\ \E fault \in Faults :
          \E r \in {handle_syscall(arch, regs, mem, Mapped, binds, stack_map, fault)} :
              /\ regs' = r.regs
              /\ mem' = r.mem
              /\ hs' = <<[ok |-> r.ok, log |-> r.log, calls |-> r.calls]>>
    /\ UNCHANGED <<resolverVars, binds, cstr, wbytes, arch, stack_map, entry, sessionVars>>

NextSyscall == Intercept

SpecSyscall == InitSyscall /\ [][NextSyscall]_vars

----------------------------------------------------------------------------
(***************************************************************************)
(* read_c_string on its own: one call on a tracee whose mapped memory is   *)
(* one region.  Here mem is defined on the mapped addresses only, and the  *)
(* region may be longer than MAX_PATH.                                     *)
(***************************************************************************)

\* The first mapped address, and the bytes mapped beyond MAX_PATH in the
\* long region.
ReadBase == 8
ReadSlack == 16

ReadSizes == {2 * WORD, 3 * WORD, MAX_PATH + ReadSlack}

\* Where the region's NUL byte is, as an offset from ReadBase, if it has one.
NulOffsets ==
    {None} \cup {Some(n) : n \in {0, 3, 7, 8, 12, 2 * WORD + 2, MAX_PATH - 1,
                                  MAX_PATH, MAX_PATH + 3, MAX_PATH + 4}}

\* Strings start at the first byte of the region or three bytes into it.
ReadAddrs == {ReadBase, ReadBase + 3}

\* The offset of the byte that is not valid UTF-8, in regions that have one.
BadByteAt == 4

ReadMem(size, nul, bad) ==
    [x \in ReadBase..(ReadBase + size - 1) |->
        IF nul # None /\ x = ReadBase + Unwrap(nul) THEN 0
        ELSE IF bad /\ x = ReadBase + BadByteAt THEN 255
        ELSE XCHAR]

InitRead ==
    /\ path = <<>> /\ resolved = <<>> /\ suffixes = <<>> /\ new_path = <<>>
    /\ reapplied = <<>>
    /\ binds = <<>>
    /\ arch = "none" /\ regs = <<>> /\ stack_map = None
    /\ entry = <<>> /\ hs = <<>>
    /\ \E size \in ReadSizes, nul \in NulOffsets, bad \in BOOLEAN :
          /\ nul # None => Unwrap(nul) < size
          /\ bad => size < MAX_PATH
          /\ mem = ReadMem(size, nul, bad)
    /\ \E addr \in ReadAddrs : cstr = [addr |-> addr, res |-> <<>>]
    /\ wbytes = <<>>
    /\ NoSession

\* read_c_string(pid, addr).
ReadCString ==
    /\ cstr.res = <<>>
    /\ cstr' = [cstr EXCEPT
                   !.res = <<read_c_string(mem, DOMAIN mem, cstr.addr)>>]
    /\ UNCHANGED <<resolverVars, binds, traceeVars, entry, hs, wbytes,
                   sessionVars>>

NextRead == ReadCString

SpecRead == InitRead /\ [][NextRead]_vars

----------------------------------------------------------------------------
(***************************************************************************)
(* write_bytes on its own: one call on a tracee whose mapped memory is one *)
(* region (mem is defined on the mapped addresses only).                   *)
(***************************************************************************)

\* The first mapped address and the longest payload.
WriteBase == 8
MaxWriteLen == 17

WriteSizes == {3 * WORD, 4 * WORD}

\* Payloads start on a word of the region, inside a word, or so late that
\* the longer ones run out of the region.
WriteAddrs == {WriteBase, WriteBase + 3, WriteBase + WORD + 5}

\* Every mapped byte differs from its neighbours, from zero and from the
\* payload's bytes.
WriteMem(size) == [x \in WriteBase..(WriteBase + size - 1) |-> 1 + (x % 100)]

\* Payloads of distinct bytes, and payloads of NULs.
Payloads ==
    {[i \in 1..n |-> 100 + i] : n \in 0..MaxWriteLen}
        \cup {[i \in 1..n |-> 0] : n \in 1..MaxWriteLen}

InitWrite ==
    /\ path = <<>> /\ resolved = <<>> /\ suffixes = <<>> /\ new_path = <<>>
    /\ reapplied = <<>>
    /\ binds = <<>>
    /\ arch = "none" /\ regs = <<>> /\ stack_map = None
    /\ entry = <<>> /\ hs = <<>> /\ cstr = <<>>
    /\ \E size \in WriteSizes : mem = WriteMem(size)
    /\ \E addr \in WriteAddrs, bytes \in Payloads, ro \in BOOLEAN :
          wbytes = [addr |-> addr, bytes |-> bytes, before |-> mem,
                    writable |-> IF ro THEN {} ELSE DOMAIN mem, res |-> <<>>]
    /\ NoSession

\* write_bytes(pid, addr, bytes).
WriteBytes ==
    /\ wbytes.res = <<>>
    /\ \E w \in {write_bytes(mem, DOMAIN mem, wbytes.writable, wbytes.addr,
                              wbytes.bytes)} :
          /\ mem' = w.mem
          /\ wbytes' = [wbytes EXCEPT !.res = <<[ok |-> w.ok, calls |-> w.calls]>>]
    /\ UNCHANGED <<resolverVars, binds, arch, regs, stack_map, entry, hs, cstr,
                   sessionVars>>

NextWrite == WriteBytes

SpecWrite == InitWrite /\ [][NextWrite]_vars

----------------------------------------------------------------------------
(***************************************************************************)
(* The session: spawn_traced, TracedChild and trace_loop (lines 20-39 and  *)
(* 449-517), with the child process and the kernel's wait statuses.        *)
(*                                                                         *)
(* caller : "start" -> "spawned" -> "threaded" -> "handed" -> "waited",    *)
(*          or "start" -> "spawn_failed"                                   *)
(* worker : "idle" -> "hs_wait" -> "hs_setopts" -> "hs_resume" ->          *)
(*          "tr_wait" <-> "tr_handle" / "tr_resume", and "done" at return  *)
(* child  : "none" -> "forked" -> "traced" -> "stopped" <-> "running" ->   *)
(*          "zombie" -> "reaped"                                           *)
(*                                                                         *)
(* A tracing call succeeds only while the child is in a stop; on a child   *)
(* that has been killed it fails with ESRCH.  waitpid(pid, None) blocks    *)
(* until the kernel holds a status, so it never reports StillAlive or      *)
(* Continued; the handlers of those statuses are modelled all the same.    *)
(***************************************************************************)

MaxSyscalls == 2      \* syscalls the child starts
MaxStops    == 1      \* stops of the child's own making that are no syscall stops
MaxTakes    == 2      \* take_stdout / take_stderr calls the caller makes

ExitCodes == {0, 42}

\* Signals of the child's own making, and those sent from outside.
SelfSignals == {"SIGTRAP", "SIGCHLD"}
TerminationSignals == {"SIGTERM", "SIGKILL"}

\* `sig as i32` (line 481 and line 494): the signal's number.
signal_number(sig) ==
    CASE sig = "SIGTRAP" -> 5
      [] sig = "SIGKILL" -> 9
      [] sig = "SIGTERM" -> 15
      [] sig = "SIGCHLD" -> 17
      [] sig = "SIGSTOP" -> 19

Ok(v) == <<"Ok", v>>
Err(e) == <<"Err", e>>

Status(kind, sig, code) == [kind |-> kind, sig |-> sig, code |-> code]
Stopped(sig) == Status("Stopped", sig, 0)
Exited(code) == Status("Exited", "", code)
Signaled(sig) == Status("Signaled", sig, 0)
PtraceSyscall == Status("PtraceSyscall", "", 0)
PtraceEvent == Status("PtraceEvent", "", 0)

\* What the syscalls of the child look like at their entry stop.
LoopSp == StackLo + 160
\* The programs the Command runs: one whose syscalls are all rename, and one
\* that alternates getpid and rename, starting with getpid.
Programs == {"renames", "mixed"}

\* The registers at the entry stop of the k-th syscall of a program: "renames"
\* renames a path that shrinks to one that grows; "mixed" alternates getpid
\* with a rename whose first pointer is not readable.
EntryOf(prog, k) ==
    IF prog = "mixed"
    THEN IF k % 2 = 1 THEN EntryRegs("getpid", 0, 0, LoopSp)
         ELSE EntryRegs("rename", AddrBad, AddrLong, LoopSp)
    ELSE EntryRegs("rename", AddrShort, AddrLong, LoopSp)

LoopBinds == {<<>>, <<RuleShorter, RuleLonger>>}

\* The Commands: a program, run with both of its output streams piped or
\* with none.
Commands ==
    {[stdout |-> piped, stderr |-> piped, prog |-> prog] :
        piped \in BOOLEAN, prog \in Programs}

\* spawn_traced is about to be called.
SessionStart ==
    /\ path = <<>> /\ resolved = <<>> /\ suffixes = <<>> /\ new_path = <<>>
    /\ reapplied = <<>>
    /\ binds \in LoopBinds
    /\ arch = "x86_64"
    /\ regs = EntryRegs("getpid", 0, 0, LoopSp)
    /\ mem = InitialMem
    /\ stack_map = Some(<<StackLo, StackHi>>)
    /\ entry = [regs |-> regs, mem |-> mem]
    /\ hs = <<>>
    /\ cstr = <<>> /\ wbytes = <<>>
    /\ command \in Commands
    /\ caller = "start"
    /\ handles = [stdout |-> None, stderr |-> None]
    /\ takes = [stdout |-> <<>>, stderr |-> <<>>]
    /\ wait_result = None
    /\ worker = "idle" /\ in_syscall = FALSE /\ deliver = None /\ result = None
    /\ seen = {} /\ first_terminal = None /\ ncalls = 0 /\ calls_at_terminal = 0
    /\ obs = [last |-> None, nsys |-> 0, handled |-> {}, setopts |-> 0,
              options |-> {}, resumes |-> 0, answer |-> None, issuers |-> {},
              failed |-> None]
    /\ child = "none" /\ ch_insys = FALSE /\ notif = None /\ pending = None
    /\ sent = None
    /\ used = [sys |-> 0, stops |-> 0]

\* In Spec any call may fail for a reason of its own, next to the failures
\* that follow from the child's state.
Init == SessionStart /\ faulty = TRUE

unchangedTracee == UNCHANGED <<resolverVars, binds, cstr, wbytes, traceeVars, entry, hs>>

(***************************************************************************)
(* The caller: spawn_traced (lines 449-468) and TracedChild (lines 20-39). *)
(***************************************************************************)

\* command.spawn() succeeds (line 461): the child exists and runs pre_exec.
Spawn ==
    /\ caller = "start"
    /\ caller' = "spawned"
    /\ child' = "forked"
    /\ handles' = [stdout |-> IF command.stdout THEN Some("stdout") ELSE None,
                   stderr |-> IF command.stderr THEN Some("stderr") ELSE None]
    /\ UNCHANGED <<command, faulty, takes, wait_result, workerVars,
                   ch_insys, notif, pending, sent, used>>
    /\ unchangedTracee

\* A plausible slip: the error of command.spawn() is looked at only after
\* the worker thread was spawned.
spawn_error_checked_late(w) == "hs_wait"

\* The `?` of line 461 returns before line 464 is reached: the worker thread
\* is left as it is, not started.
spawn_error_returns(w) == w

\* command.spawn() fails (the `?` of line 461): spawn_traced returns Err.
SpawnFails ==
    /\ caller = "start"
    /\ caller' = "spawn_failed"
    /\ worker' = spawn_error_returns(worker)
    /\ UNCHANGED <<command, faulty, handles, takes, wait_result, in_syscall,
                   deliver, result, seen, first_terminal, ncalls,
                   calls_at_terminal, obs, childVars>>
    /\ unchangedTracee

\* A plausible slip: the worker thread is created but never started.
thread_not_started(w) == w

\* thread::spawn(move || trace_loop(pid, binds)) (line 464).
thread_spawn(w) == "hs_wait"

ThreadSpawn ==
    /\ caller = "spawned"
    /\ caller' = "threaded"
    /\ worker' = thread_spawn(worker)
    /\ UNCHANGED <<command, faulty, handles, takes, wait_result, in_syscall,
                   deliver, result, seen, first_terminal, ncalls,
                   calls_at_terminal, obs, childVars>>
    /\ unchangedTracee

\* Ok(TracedChild { child, wait_handle }) (line 466).
Return ==
    /\ caller = "threaded"
    /\ caller' = "handed"
    /\ UNCHANGED <<command, faulty, handles, takes, wait_result, workerVars, childVars>>
    /\ unchangedTracee

\* A plausible slip: the accessor clones the handle instead of taking it.
take_keeps(h) == [ret |-> h, left |-> h]

\* Option::take (lines 26 and 30): returns the handle and leaves None.
take(h) == [ret |-> h, left |-> None]

take_stdout ==
    /\ caller = "handed"
    /\ Len(takes.stdout) + Len(takes.stderr) < MaxTakes
    /\ handles' = [handles EXCEPT !.stdout = take(handles.stdout).left]
    /\ takes' = [takes EXCEPT !.stdout = Append(@, take(handles.stdout).ret)]
    /\ UNCHANGED <<command, faulty, caller, wait_result, workerVars, childVars>>
    /\ unchangedTracee

take_stderr ==
    /\ caller = "handed"
    /\ Len(takes.stdout) + Len(takes.stderr) < MaxTakes
    /\ handles' = [handles EXCEPT !.stderr = take(handles.stderr).left]
    /\ takes' = [takes EXCEPT !.stderr = Append(@, take(handles.stderr).ret)]
    /\ UNCHANGED <<command, faulty, caller, wait_result, workerVars, childVars>>
    /\ unchangedTracee

\* TracedChild::wait (lines 33-38): join the worker and pass its value on.
wait ==
    /\ caller = "handed"
    /\ worker = "done"
    /\ caller' = "waited"
    /\ wait_result' = result
    /\ UNCHANGED <<command, faulty, handles, takes, workerVars, childVars>>
    /\ unchangedTracee

(***************************************************************************)
(* The worker: trace_loop (lines 477-517).                                 *)
(***************************************************************************)

IsTerminal(st) == st.kind \in {"Exited", "Signaled"}

\* A plausible slip: the signal number is returned without the offset 128.
terminal_result_no_offset(st) ==
    IF st.kind = "Exited" THEN Ok(st.code) ELSE Ok(signal_number(st.sig))

\* Lines 481-482 and 493-494: what the loop returns on an exit or kill status.
terminal_result(st) ==
    IF st.kind = "Exited" THEN Ok(st.code) ELSE Ok(128 + signal_number(st.sig))

\* A plausible slip: an exit or kill seen by the handshake loop is an error.
handshake_next_fatal(st) ==
    IF st.kind = "Stopped" /\ st.sig = "SIGSTOP"
    THEN [worker |-> "hs_setopts", result |-> None]
    ELSE IF IsTerminal(st)
    THEN [worker |-> "done", result |-> Some(Err("handshake"))]
    ELSE [worker |-> "hs_wait", result |-> None]

\* A plausible slip: the handshake loop is left on any stop of the child, not
\* only on its SIGSTOP stop.
handshake_next_any_stop(st) ==
    IF st.kind = "Stopped"
    THEN [worker |-> "hs_setopts", result |-> None]
    ELSE IF IsTerminal(st)
    THEN [worker |-> "done", result |-> Some(terminal_result(st))]
    ELSE [worker |-> "hs_wait", result |-> None]

\* The match of the handshake loop (lines 479-484).
handshake_next(st) ==
    IF st.kind = "Stopped" /\ st.sig = "SIGSTOP"
    THEN [worker |-> "hs_setopts", result |-> None]
    ELSE IF IsTerminal(st)
    THEN [worker |-> "done", result |-> Some(terminal_result(st))]
    ELSE [worker |-> "hs_wait", result |-> None]

\* A plausible slip: the flag is toggled on every stop, not only on
\* syscall stops.
trace_next_toggles_always(st, in_sys) ==
    CASE IsTerminal(st) ->
           [worker |-> "done", in_syscall |-> in_sys, deliver |-> None,
            result |-> Some(terminal_result(st))]
      [] st.kind = "PtraceSyscall" ->
           [worker |-> IF ~in_sys THEN "tr_handle" ELSE "tr_resume",
            in_syscall |-> ~in_sys, deliver |-> None, result |-> None]
      [] OTHER ->
           [worker |-> "tr_resume", in_syscall |-> ~in_sys,
            deliver |-> IF st.kind = "Stopped" /\ st.sig # "SIGTRAP"
                        THEN Some(st.sig) ELSE None,
            result |-> None]

\* A plausible slip: every signal stop is answered without a signal.
trace_next_swallows_signals(st, in_sys) ==
    CASE IsTerminal(st) ->
           [worker |-> "done", in_syscall |-> in_sys, deliver |-> None,
            result |-> Some(terminal_result(st))]
      [] st.kind = "PtraceSyscall" ->
           [worker |-> IF ~in_sys THEN "tr_handle" ELSE "tr_resume",
            in_syscall |-> ~in_sys, deliver |-> None, result |-> None]
      [] OTHER ->
           [worker |-> "tr_resume", in_syscall |-> in_sys, deliver |-> None,
            result |-> None]

\* Mutant: handle_syscall is called at every syscall-boundary stop.
trace_next_handles_exit(st, in_sys) ==
    CASE IsTerminal(st) ->
           [worker |-> "done", in_syscall |-> in_sys, deliver |-> None,
            result |-> Some(terminal_result(st))]
      [] st.kind = "PtraceSyscall" ->
           [worker |-> "tr_handle", in_syscall |-> ~in_sys, deliver |-> None,
            result |-> None]
      [] st.kind \in {"PtraceEvent", "Continued"} ->
           [worker |-> "tr_resume", in_syscall |-> in_sys, deliver |-> None,
            result |-> None]
      [] st.kind = "Stopped" ->
           [worker |-> "tr_resume", in_syscall |-> in_sys,
            deliver |-> IF st.sig = "SIGTRAP" THEN None ELSE Some(st.sig),
            result |-> None]
      [] OTHER ->
           [worker |-> "tr_wait", in_syscall |-> in_sys, deliver |-> None,
            result |-> None]

\* The match of the tracing loop (lines 492-514), up to the call it makes next.
trace_next(st, in_sys) ==
    CASE IsTerminal(st) ->
           [worker |-> "done", in_syscall |-> in_sys, deliver |-> None,
            result |-> Some(terminal_result(st))]
      [] st.kind = "PtraceSyscall" ->
           [worker |-> IF ~in_sys THEN "tr_handle" ELSE "tr_resume",
            in_syscall |-> ~in_sys, deliver |-> None, result |-> None]
      [] st.kind \in {"PtraceEvent", "Continued"} ->
           [worker |-> "tr_resume", in_syscall |-> in_sys, deliver |-> None,
            result |-> None]
      [] st.kind = "Stopped" ->
           [worker |-> "tr_resume", in_syscall |-> in_sys,
            deliver |-> IF st.sig = "SIGTRAP" THEN None ELSE Some(st.sig),
            result |-> None]
      [] OTHER ->
           [worker |-> "tr_wait", in_syscall |-> in_sys, deliver |-> None,
            result |-> None]

\* A plausible slip: trace_loop is run by the thread that calls spawn_traced.
trace_loop_inline == "caller"

\* The thread trace_loop runs on: the one line 464 spawns.
trace_loop_thread == "worker"

\* A call may fail for a reason of its own (EINTR, EIO, ...) where the
\* session is set up that way.
FaultChoices == IF faulty THEN {FALSE, TRUE} ELSE {FALSE}

\* A tracing call on a child that is not in a stop fails with ESRCH.
TracingCallFails == child # "stopped"

\* The record kept of the calls trace_loop issues.
Issued(o) == [o EXCEPT !.issuers = @ \cup {trace_loop_thread}]

Failed(o, call) ==
    IF o.failed = None
    THEN [o EXCEPT !.failed = Some([call |-> call, at |-> ncalls + 1])]
    ELSE o

\* A plausible slip: the error of a failing call is dropped and the loop
\* carries on.
IgnoresErr(e) == UNCHANGED <<worker, result>>

\* The `?` of a failing call: trace_loop returns the error at once.
ReturnsErr(e) == worker' = "done" /\ result' = Some(Err(e))

\* What waitpid does to the bookkeeping: the status is taken from the kernel,
\* a dead child is reaped, and the call is counted.
Reported(st) ==
    /\ notif' = None
    /\ child' = IF IsTerminal(st) THEN "reaped" ELSE child
    /\ seen' = seen \cup {st}
    /\ ncalls' = ncalls + 1
    /\ first_terminal' = IF IsTerminal(st) /\ first_terminal = None
                         THEN Some(st) ELSE first_terminal
    /\ calls_at_terminal' = IF IsTerminal(st) /\ first_terminal = None
                            THEN ncalls + 1 ELSE calls_at_terminal

\* waitpid fails (the `?` of lines 479 and 493).
WaitFails ==
    /\ ncalls' = ncalls + 1
    /\ ReturnsErr("EINTR")
    /\ obs' = Failed(Issued(obs), "wait")
    /\ UNCHANGED <<notif, child, seen, first_terminal, calls_at_terminal,
                   in_syscall, deliver>>

\* waitpid(pid, None) of line 479 returns, and the match of lines 480-484.
HandshakeWait ==
    /\ worker = "hs_wait"
    /\ \E fail \in FaultChoices :
          IF fail THEN WaitFails
          ELSE /\ notif # None
               /\ Reported(Unwrap(notif))
               /\ worker' = handshake_next(Unwrap(notif)).worker
               /\ result' = handshake_next(Unwrap(notif)).result
               /\ obs' = [Issued(obs) EXCEPT !.last = notif]
               /\ UNCHANGED <<in_syscall, deliver>>
    /\ UNCHANGED <<callerVars, ch_insys, pending, sent, used>>
    /\ unchangedTracee

\* Line 487: the options handed to ptrace::setoptions.
options == {"PTRACE_O_TRACESYSGOOD", "PTRACE_O_EXITKILL"}

\* How the kernel reports a syscall stop: marked as such under
\* PTRACE_O_TRACESYSGOOD, as a plain SIGTRAP stop without it.
SyscallStop ==
    IF "PTRACE_O_TRACESYSGOOD" \in obs.options THEN PtraceSyscall
    ELSE Stopped("SIGTRAP")

\* ptrace::setoptions (line 488).
SetOptions ==
    /\ worker = "hs_setopts"
    /\ ncalls' = ncalls + 1
    /\ \E fail \in FaultChoices :
          IF fail \/ TracingCallFails
          THEN /\ ReturnsErr("ESRCH")
               /\ obs' = Failed([Issued(obs) EXCEPT !.setopts = @ + 1], "setoptions")
          ELSE /\ worker' = "hs_resume" /\ result' = result
               /\ obs' = [Issued(obs) EXCEPT !.setopts = @ + 1,
                                             !.options = options]
    /\ UNCHANGED <<callerVars, in_syscall, deliver, seen, first_terminal,
                   calls_at_terminal, childVars>>
    /\ unchangedTracee

\* ptrace::syscall(pid, None) of line 489, and `in_syscall = false` (line 491).
FirstResume ==
    /\ worker = "hs_resume"
    /\ ncalls' = ncalls + 1
    /\ \E fail \in FaultChoices :
          IF fail \/ TracingCallFails
          THEN /\ ReturnsErr("ESRCH") /\ child' = child
               /\ obs' = Failed([Issued(obs) EXCEPT
                                   !.resumes = @ + 1,
                                   !.answer = Some([to |-> obs.last, sig |-> None])],
                                "resume")
          ELSE /\ worker' = "tr_wait" /\ result' = result /\ child' = "running"
               /\ obs' = [Issued(obs) EXCEPT
                            !.resumes = @ + 1,
                            !.answer = Some([to |-> obs.last, sig |-> None])]
    /\ in_syscall' = FALSE
    /\ UNCHANGED <<callerVars, deliver, seen, first_terminal, calls_at_terminal,
                   ch_insys, notif, pending, sent, used>>
    /\ unchangedTracee

\* waitpid(pid, None) of line 493 returns, and the match up to its next call.
TraceWait ==
    /\ worker = "tr_wait"
    /\ \E fail \in FaultChoices :
          IF fail THEN WaitFails
          ELSE /\ notif # None
               /\ Reported(Unwrap(notif))
               /\ worker' = trace_next(Unwrap(notif), in_syscall).worker
               /\ in_syscall' = trace_next(Unwrap(notif), in_syscall).in_syscall
               /\ deliver' = trace_next(Unwrap(notif), in_syscall).deliver
               /\ result' = trace_next(Unwrap(notif), in_syscall).result
               /\ obs' = [Issued(obs) EXCEPT
                            !.last = notif,
                            !.nsys = IF Unwrap(notif).kind = "PtraceSyscall"
                                     THEN @ + 1 ELSE @]
    /\ UNCHANGED <<callerVars, ch_insys, pending, sent, used>>
    /\ unchangedTracee

\* What makes handle_syscall fail where the rewriting itself does not:
\* get_regs on a child that is gone, or a fault in get_regs, set_regs or
\* ptrace::write.
HandleFaults ==
    IF TracingCallFails THEN {"getregs"}
    ELSE IF faulty THEN {"none", "getregs", "setregs", "poke"}
    ELSE {"none"}

\* The call of a failed handle_syscall that failed: the last one it issued.
FailedCall(r) == IF r.calls = <<>> THEN "none" ELSE r.calls[Len(r.calls)].op

\* handle_syscall(pid, &binds) at a syscall-entry stop (lines 497-499).
HandleSyscall ==
    /\ worker = "tr_handle"
    /\ \E fault \in HandleFaults :
       \E r \in {handle_syscall(arch, regs, mem, Mapped, binds, stack_map, fault)} :
          /\ regs' = r.regs
          /\ mem' = r.mem
          /\ hs' = <<[ok |-> r.ok, log |-> r.log, calls |-> r.calls]>>
          /\ ncalls' = ncalls + Len(r.calls)
          /\ IF r.ok
             THEN /\ worker' = "tr_resume" /\ result' = result
                  /\ obs' = [(IF r.calls = <<>> THEN obs ELSE Issued(obs))
                               EXCEPT !.handled = @ \cup {obs.nsys}]
             ELSE /\ ReturnsErr("handle_syscall")
                  /\ obs' = [Failed(Issued(obs), FailedCall(r))
                               EXCEPT !.handled = @ \cup {obs.nsys},
                                      !.failed = Some([call |-> FailedCall(r),
                                                       at |-> ncalls + Len(r.calls)])]
    /\ UNCHANGED <<resolverVars, binds, cstr, wbytes, arch, stack_map, entry, callerVars,
                   in_syscall, deliver, seen, first_terminal, calls_at_terminal,
                   childVars>>

\* Whether delivering sig ends the child (its default action, not caught).
Terminates(sig) == sig \in TerminationSignals

\* ptrace::syscall(pid, deliver) of lines 500, 503 and 511.
Resume ==
    /\ worker = "tr_resume"
    /\ ncalls' = ncalls + 1
    /\ deliver' = None
    /\ \E fail \in FaultChoices :
          IF fail \/ TracingCallFails
          THEN /\ ReturnsErr("ESRCH")
               /\ obs' = Failed([Issued(obs) EXCEPT
                                   !.resumes = @ + 1,
                                   !.answer = Some([to |-> obs.last, sig |-> deliver])],
                                "resume")
               /\ UNCHANGED <<child, notif>>
          ELSE /\ worker' = "tr_wait" /\ result' = result
               /\ obs' = [Issued(obs) EXCEPT
                            !.resumes = @ + 1,
                            !.answer = Some([to |-> obs.last, sig |-> deliver])]
               /\ IF deliver # None /\ Terminates(Unwrap(deliver))
                  THEN child' = "zombie" /\ notif' = Some(Signaled(Unwrap(deliver)))
                  ELSE child' = "running" /\ notif' = notif
    /\ UNCHANGED <<callerVars, in_syscall, seen, first_terminal,
                   calls_at_terminal, ch_insys, pending, sent, used>>
    /\ unchangedTracee

(***************************************************************************)
(* The child and the kernel.  A signal that is pending for a child that    *)
(* can run is delivered before the child does anything else.               *)
(***************************************************************************)

\* ptrace::traceme() in pre_exec (line 452).
ChildTraceme ==
    /\ child = "forked"
    /\ pending = None
    /\ child' = "traced"
    /\ UNCHANGED <<callerVars, workerVars, ch_insys, notif, pending, sent, used>>
    /\ unchangedTracee

\* raise(SIGSTOP) in pre_exec (line 454): the child stops and the kernel
\* holds the status Stopped(SIGSTOP) for the tracer.
ChildRaiseStop ==
    /\ child = "traced"
    /\ pending = None
    /\ child' = "stopped"
    /\ notif' = Some(Stopped("SIGSTOP"))
    /\ UNCHANGED <<callerVars, workerVars, ch_insys, pending, sent, used>>
    /\ unchangedTracee

\* The child enters a syscall while traced with PTRACE_SYSCALL (line 489):
\* a syscall-entry stop, reported as PtraceSyscall (TRACESYSGOOD, line 487).
ChildSyscallEntry ==
    /\ child = "running"
    /\ pending = None
    /\ ~ch_insys
    /\ used.sys < MaxSyscalls
    /\ child' = "stopped"
    /\ ch_insys' = TRUE
    /\ notif' = Some(SyscallStop)
    /\ used' = [used EXCEPT !.sys = used.sys + 1]
    /\ regs' = EntryOf(command.prog, used.sys + 1)
    /\ entry' = [regs |-> regs', mem |-> mem]
    /\ hs' = <<>>
    /\ UNCHANGED <<resolverVars, binds, cstr, wbytes, arch, mem, stack_map, callerVars,
                   workerVars, pending, sent>>

\* The syscall returns: a syscall-exit stop.
ChildSyscallExit ==
    /\ child = "running"
    /\ pending = None
    /\ ch_insys
    /\ child' = "stopped"
    /\ ch_insys' = FALSE
    /\ notif' = Some(SyscallStop)
    /\ UNCHANGED <<callerVars, workerVars, pending, sent, used>>
    /\ unchangedTracee

\* The child exits with a code; the kernel holds Exited(code).
ChildExit(code) ==
    /\ child = "running"
    /\ pending = None
    /\ child' = "zombie"
    /\ notif' = Some(Exited(code))
    /\ UNCHANGED <<callerVars, workerVars, ch_insys, pending, sent, used>>
    /\ unchangedTracee

\* A signal of the child's own making is about to be delivered (SIGTRAP
\* after exec, SIGCHLD when a grandchild ends): a signal-delivery stop.
ChildRaise(sig) ==
    /\ child = "running"
    /\ pending = None
    /\ used.stops < MaxStops
    /\ child' = "stopped"
    /\ notif' = Some(Stopped(sig))
    /\ used' = [used EXCEPT !.stops = used.stops + 1]
    /\ UNCHANGED <<callerVars, workerVars, ch_insys, pending, sent>>
    /\ unchangedTracee

\* The kernel reports a ptrace event stop (the arm of line 502).
ChildEventStop ==
    /\ child = "running"
    /\ pending = None
    /\ used.stops < MaxStops
    /\ child' = "stopped"
    /\ notif' = Some(PtraceEvent)
    /\ used' = [used EXCEPT !.stops = used.stops + 1]
    /\ UNCHANGED <<callerVars, workerVars, ch_insys, pending, sent>>
    /\ unchangedTracee

ChildAlive == child \in {"forked", "traced", "stopped", "running"}

\* Some thread or process sends the child a termination signal.  SIGKILL
\* ends the child at once, whatever stop it is in; any other signal waits
\* until the child can run.
SendSignal(sig) ==
    /\ ChildAlive
    /\ sent = None
    /\ sent' = Some(sig)
    /\ IF sig = "SIGKILL"
       THEN child' = "zombie" /\ notif' = Some(Signaled(sig)) /\ pending' = pending
       ELSE child' = child /\ notif' = notif /\ pending' = Some(sig)
    /\ UNCHANGED <<callerVars, workerVars, ch_insys, used>>
    /\ unchangedTracee

\* The pending signal reaches the child: before traceme it takes its default
\* action, afterwards the child enters a signal-delivery stop.
DeliverSignal ==
    /\ pending # None
    /\ child \in {"forked", "traced", "running"}
    /\ pending' = None
    /\ IF child = "forked"
       THEN child' = "zombie" /\ notif' = Some(Signaled(Unwrap(pending)))
       ELSE child' = "stopped" /\ notif' = Some(Stopped(Unwrap(pending)))
    /\ UNCHANGED <<callerVars, workerVars, ch_insys, sent, used>>
    /\ unchangedTracee

CallerStep == Spawn \/ ThreadSpawn \/ Return \/ wait

WorkerStep ==
    \/ HandshakeWait
    \/ SetOptions
    \/ FirstResume
    \/ TraceWait
    \/ HandleSyscall
    \/ Resume

Next ==
    \/ Spawn
    \/ SpawnFails
    \/ ThreadSpawn
    \/ Return
    \/ take_stdout
    \/ take_stderr
    \/ wait
    \/ HandshakeWait
    \/ SetOptions
    \/ FirstResume
    \/ TraceWait
    \/ HandleSyscall
    \/ Resume
    \/ ChildTraceme
    \/ ChildRaiseStop
    \/ ChildSyscallEntry
    \/ ChildSyscallExit
    \/ \E code \in ExitCodes : ChildExit(code)
    \/ \E sig \in SelfSignals : ChildRaise(sig)
    \/ ChildEventStop
    \/ \E sig \in TerminationSignals : SendSignal(sig)
    \/ DeliverSignal

Spec == Init /\ [][Next]_vars

\* Fair scheduling: the caller's thread, the worker thread and the child's
\* start-up run when they can, a pending signal is delivered, and no call
\* fails for a reason of its own.
InitFair == SessionStart /\ faulty = FALSE

FairSpec ==
    /\ InitFair /\ [][Next]_vars
    /\ WF_vars(CallerStep)
    /\ WF_vars(WorkerStep)
    /\ WF_vars(ChildTraceme \/ ChildRaiseStop)
    /\ WF_vars(DeliverSignal)

----------------------------------------------------------------------------
(***************************************************************************)
(* Claims about the bind resolver (checked under SpecResolve).             *)
(***************************************************************************)

ResolveDone == resolved # <<>>

\* g is a segment-respecting prefix of p, as the specification words it.
SegmentPrefix(g, p) ==
    /\ g # <<>>
    /\ Len(g) <= Len(p)
    /\ \A k \in 1..Len(g) : p[k] = g[k]
    /\ \/ Len(p) = Len(g)
       \/ g[Len(g)] = SLASH
       \/ p[Len(g) + 1] = SLASH

\* p with its first n bytes removed.
DropFirst(p, n) == [k \in 1..(Len(p) - n) |-> p[n + k]]

Matching == {i \in 1..Len(binds) : SegmentPrefix(binds[i][2], path)}

Longest ==
    CHOOSE r \in {{i \in m : \A j \in m : Len(binds[j][2]) <= Len(binds[i][2])} :
                     m \in {Matching}} : TRUE

\* C3: when at least one rule matches, resolve_bind builds its result from a
\* matching rule whose guest prefix has maximal length among the matching
\* rules, wherever that rule stands in the list.
C3_LongestGuestWins ==
    (ResolveDone /\ Matching # {}) =>
        \E i \in Longest :
            resolved[1] = Some(join_path(binds[i][1],
                                         DropFirst(path, Len(binds[i][2]))))

\* C3 witness: a shorter matching rule stands after a longer matching one
\* that wins, and (in another rule order) before it.
C3_Witness ==
    /\ ResolveDone
    /\ Len(binds) = 2
    /\ Matching = {1, 2}
    /\ Len(binds[1][2]) > Len(binds[2][2])
    /\ binds[1][1] # binds[2][1]
    /\ resolved[1] = Some(join_path(binds[1][1],
                                     DropFirst(path, Len(binds[1][2]))))
    /\ resolved[1] # Some(join_path(binds[2][1],
                                     DropFirst(path, Len(binds[2][2]))))

\* C4: path_suffix returns Some exactly for a non-empty guest prefix that is
\* a prefix of the path ending on a segment boundary (path = guest, guest
\* ends with '/', or the next byte of the path is '/'), and the suffix is
\* the path without its first len(guest) bytes.
C4_PathSuffixSegments ==
    ResolveDone =>
        \A i \in 1..Len(binds) :
            suffixes[i] = IF SegmentPrefix(binds[i][2], path)
                          THEN Some(DropFirst(path, Len(binds[i][2])))
                          ELSE None

\* C4 witness: one rule ends in the middle of a segment and is rejected,
\* another is accepted with a non-empty suffix.
C4_Witness ==
    /\ ResolveDone
    /\ Len(binds) = 2
    /\ binds[1][2] = <<SLASH, XCHAR>> /\ path = <<SLASH, XCHAR, XCHAR>>
    /\ suffixes[1] = None
    /\ binds[2][2] = <<SLASH>>
    /\ suffixes[2] = Some(<<XCHAR, XCHAR>>)

\* C5: if no rule's guest prefix is a segment-respecting prefix of the path
\* (in particular with no rule at all), resolve_bind returns None.
C5_NoMatchIsNone ==
    (ResolveDone /\ Matching = {}) => resolved[1] = None

\* C5 witness: a rule whose guest is a plain string prefix of the path but
\* not a segment prefix, and the result None.
C5_Witness ==
    /\ ResolveDone
    /\ Len(binds) >= 1
    /\ Matching = {}
    /\ \E i \in 1..Len(binds) :
           binds[i][2] # <<>> /\ starts_with(path, binds[i][2])
    /\ resolved[1] = None

\* C6 as claimed: resolve_bind never returns Some(path).
C6_NeverIdentity ==
    ResolveDone => resolved[1] # Some(path)

\* C6 as amended: resolve_bind returns Some(path) when the winning rule
\* rebuilds the path itself; the no-op is dropped by its caller
\* handle_syscall, whose rewrite target is resolve_bind's result unless that
\* is None or the path itself, and so is never Some(path).
C6_CallerSkipsIdentity ==
    ResolveDone =>
        /\ new_path[1] # Some(path)
        /\ new_path[1] = IF resolved[1] = Some(path) THEN None ELSE resolved[1]
        /\ resolved[1] = Some(path) => Matching # {}

\* C6 witness: a rule rebuilds the path and the caller skips it.
C6_Witness ==
    /\ ResolveDone
    /\ resolved[1] = Some(path)
    /\ new_path[1] = None

\* C7 as claimed, for the single rule (h, g): the path g resolves to h, and
\* g + "/x" resolves to h + "/x" when h does not end with '/'; for every g.
C7_ExactAndNested ==
    (ResolveDone /\ Len(binds) = 1) =>
        LET h == binds[1][1]
            g == binds[1][2]
        IN  /\ path = g => resolved[1] = Some(h)
            /\ (path = g \o <<SLASH, XCHAR>> /\ ~ends_with(h, SLASH))
                   => resolved[1] = Some(h \o <<SLASH, XCHAR>>)

\* C7 as amended: the same, for every non-empty guest prefix g.
C7_ExactAndNestedNonEmptyGuest ==
    (ResolveDone /\ Len(binds) = 1 /\ binds[1][2] # <<>>) =>
        LET h == binds[1][1]
            g == binds[1][2]
        IN  /\ path = g => resolved[1] = Some(h)
            /\ (path = g \o <<SLASH, XCHAR>> /\ ~ends_with(h, SLASH))
                   => resolved[1] = Some(h \o <<SLASH, XCHAR>>)

\* C7 witness: the nested case under a guest prefix that ends with '/'.
C7_Witness ==
    /\ ResolveDone
    /\ Len(binds) = 1
    /\ binds[1] = <<(<<XCHAR>>), (<<SLASH>>)>>
    /\ path = <<SLASH, SLASH, XCHAR>>
    /\ resolved[1] = Some(<<XCHAR, SLASH, XCHAR>>)

----------------------------------------------------------------------------
(***************************************************************************)
(* Claims about the interceptor (checked under SpecSyscall).               *)
(***************************************************************************)

HandleSyscallOk == hs # <<>> /\ hs[1].ok

\* The bytes of the C string at addr in m, up to its NUL.
CStrLen(m, addr) ==
    CHOOSE n \in 0..MemSize :
        /\ addr + n \in DOMAIN m => m[addr + n] = 0
        /\ \A k \in 0..(n - 1) : addr + k \in DOMAIN m /\ m[addr + k] # 0

CStr(m, addr) == [k \in 1..CStrLen(m, addr) |-> m[addr + k - 1]]

\* The addresses a path slot's string occupies at entry, its NUL included.
Extent(addr) ==
    IF addr = 0 \/ addr \notin Mapped THEN {}
    ELSE addr..(addr + CStrLen(entry.mem, addr))

PathSlots ==
    LET args == syscall_path_args(arch, entry.regs.sysno)
    IN  {args[k] : k \in 1..Len(args)}

NonNullPathSlots == {i \in PathSlots : entry.regs.args[i] # 0}

NonOverlapping ==
    /\ \A i, j \in NonNullPathSlots :
          i # j => Extent(entry.regs.args[i]) \cap Extent(entry.regs.args[j]) = {}

LogOf(i) == {k \in 1..Len(hs[1].log) : hs[1].log[k].arg = i}

Outcome(i) ==
    IF LogOf(i) = {} THEN "none"
    ELSE hs[1].log[CHOOSE k \in LogOf(i) : TRUE].outcome

Skipped(i) == Outcome(i) \in {"read_failed", "no_fit"}

\* Tracee memory holds q and then a NUL at address a.
HoldsAt(m, a, q) ==
    /\ \A k \in 1..Len(q) : a + k - 1 \in Mapped /\ m[a + k - 1] = q[k]
    /\ a + Len(q) \in Mapped /\ m[a + Len(q)] = 0

RewrittenSlots ==
    {i \in NonNullPathSlots : Outcome(i) \in {"in_place", "relocated"}}

SlotRewritten(i) ==
    LET a   == entry.regs.args[i]
        raw == CStr(entry.mem, a)
        p   == from_utf8_lossy(raw)
        q   == resolve_bind(p, binds)
    IN  (~Skipped(i) /\ q # None /\ Unwrap(q) # p) =>
            /\ HoldsAt(mem, regs.args[i], Unwrap(q))
            /\ Len(Unwrap(q)) <= Len(raw) => regs.args[i] = a
            /\ Len(Unwrap(q)) > Len(raw) =>
                  /\ regs.args[i] # a
                  /\ regs.args[i] < entry.regs.sp

\* C2: after handle_syscall succeeds on path slots whose strings do not
\* overlap, every non-null path slot whose string p resolves to q # p and
\* whose rewrite was not skipped has a register value at which the tracee's
\* memory holds q followed by NUL, at the old address when len(q) <= len(p)
\* and at a relocated one otherwise; every other register is unchanged.
C2_RewrittenSlotsHoldTarget ==
    (HandleSyscallOk /\ binds # <<>> /\ NonOverlapping) =>
        /\ \A i \in NonNullPathSlots : LogOf(i) # {} /\ SlotRewritten(i)
        /\ regs.sysno = entry.regs.sysno
        /\ regs.sp = entry.regs.sp
        /\ \A i \in 0..5 :
              i \notin RewrittenSlots => regs.args[i] = entry.regs.args[i]

\* One slot rewritten in place and one relocated in the same successful stop.
C2_Witness ==
    /\ HandleSyscallOk
    /\ NonOverlapping
    /\ \E i, j \in NonNullPathSlots :
          /\ Outcome(i) = "in_place"
          /\ Outcome(j) = "relocated"
          /\ SlotRewritten(i) /\ SlotRewritten(j)
          /\ regs.args[j] # entry.regs.args[j]

----------------------------------------------------------------------------
(***************************************************************************)
(* Claims about the session (checked under Spec and FairSpec).             *)
(***************************************************************************)

\* The exit code the specification assigns to an exit or kill status.
CodeOf(st) ==
    IF st.kind = "Exited" THEN st.code ELSE 128 + signal_number(st.sig)

\* C1: once waitpid has reported its first "exited with c" or "killed by s"
\* status, in the handshake or while tracing, trace_loop has returned Ok(c) or
\* Ok(128 + s), it has issued no wait or tracing call since, and
\* TracedChild::wait, once it returns, returns that value.
C1_FirstTerminalEndsLoop ==
    first_terminal # None =>
        /\ worker = "done"
        /\ result = Some(Ok(CodeOf(Unwrap(first_terminal))))
        /\ ncalls = calls_at_terminal
        /\ caller = "waited" => wait_result = Some(Ok(CodeOf(Unwrap(first_terminal))))

\* A kill status reported while tracing, after a syscall stop, a signal stop
\* and an event stop, and handed on by wait.
C1_Witness ==
    /\ first_terminal = Some(Signaled("SIGTERM"))
    /\ {PtraceSyscall, PtraceEvent, Stopped("SIGTERM"), Stopped("SIGSTOP")} \subseteq seen
    /\ caller = "waited"
    /\ wait_result = Some(Ok(143))

\* C8, as the specification states it: a termination signal sent to the
\* child at any point after spawn leads to wait returning 128 + s.
C8_SignalEndsSession ==
    \A s \in TerminationSignals :
        (sent = Some(s)) ~> (wait_result = Some(Ok(128 + signal_number(s))))

\* The handshake loop has taken a stop that is not the SIGSTOP it waits for
\* and has gone back to waitpid without resuming the child.
C8_HandshakeStuck ==
    /\ worker = "hs_wait"
    /\ child = "stopped"
    /\ notif = None
    /\ Stopped("SIGTERM") \in seen

\* The handshake of lines 478-489 is over: the SIGSTOP stop was observed,
\* the options are set and the first resume has been issued.
HandshakeDone ==
    /\ Stopped("SIGSTOP") \in seen
    /\ worker \in {"tr_wait", "tr_handle", "tr_resume", "done"}

\* C9, as the specification states it: when spawn_traced returns the
\* TracedChild, the handshake has been completed.
C9_HandshakeBeforeReturn ==
    [][(caller = "threaded" /\ caller' = "handed") => HandshakeDone']_vars

\* C9, amended: spawn_traced returns once the child is created and the
\* worker thread is started; it issues no wait or tracing call itself, and
\* the handshake is the worker thread's, not a condition of the return.
C9_ReturnsOnceThreadStarted ==
    /\ caller \in {"handed", "waited"} => (child # "none" /\ worker # "idle")
    /\ worker = "idle" => (ncalls = 0 /\ seen = {})
    /\ caller = "threaded" => ENABLED Return

\* The caller holds the TracedChild while the worker still waits for the
\* child's self-raised stop.
C9_Witness ==
    /\ caller = "handed"
    /\ worker = "hs_wait"
    /\ seen = {}
    /\ child \in {"forked", "traced"}

\* What the first call of an accessor returns for a stream.
FirstTake(stream) == IF command[stream] THEN Some(stream) ELSE None

TakesOnce ==
    \A stream \in {"stdout", "stderr"} :
        \A j \in 1..Len(takes[stream]) :
            takes[stream][j] = IF j = 1 THEN FirstTake(stream) ELSE None

\* C10: each accessor returns Some on its first call only, and only if the
\* stream was piped, whatever was taken from the other stream; a call
\* changes nothing of the worker, the child or the tracee.
C10_TakeOnce ==
    /\ []TakesOnce
    /\ [][takes' # takes =>
            UNCHANGED <<workerVars, childVars, traceeVars, binds, entry, hs>>]_vars

\* Both accessors called on a session with both streams piped, the second
\* stream taken after the first, while the worker is tracing.
C10_Witness ==
    /\ command.stdout /\ command.stderr
    /\ takes.stdout = <<Some("stdout")>>
    /\ takes.stderr = <<Some("stderr")>>
    /\ handles = [stdout |-> None, stderr |-> None]
    /\ worker = "tr_wait"

\* C11: once a wait, set-options, resume, register-read or register-write call
\* of trace_loop has failed, the loop has returned an error, it has issued no
\* call after the failed one, and TracedChild::wait, once it returns, returns
\* an error and not an exit code.
C11_FailedCallEndsLoop ==
    obs # <<>> /\ obs.failed # None =>
        /\ worker = "done"
        /\ result # None /\ Unwrap(result)[1] = "Err"
        /\ ncalls = Unwrap(obs.failed).at
        /\ caller = "waited" => wait_result # None /\ Unwrap(wait_result)[1] = "Err"

\* A register write that failed after the rewriting had relocated a path, and
\* the error handed on by wait.
C11_Witness ==
    /\ obs # <<>> /\ obs.failed # None
    /\ Unwrap(obs.failed).call = "setregs"
    /\ caller = "waited"
    /\ wait_result = Some(Err("handle_syscall"))

\* Every kind of call fails in some session.
C11_WitnessWait ==
    obs # <<>> /\ obs.failed # None /\ Unwrap(obs.failed).call = "wait"
       /\ obs.nsys > 0

\* The child's exit or kill was reported before any SIGSTOP stop was.
DiedInHandshake == first_terminal # None /\ Stopped("SIGSTOP") \notin seen

\* The exit and kill statuses waitpid can report.
TerminalStatuses ==
    {Exited(c) : c \in ExitCodes} \cup {Signaled(s) : s \in TerminationSignals}

\* The match of the handshake loop returns the code of an exit or kill status.
HandshakeReturnsCode ==
    \A st \in TerminalStatuses :
        handshake_next(st) = [worker |-> "done", result |-> Some(Ok(CodeOf(st)))]

\* C12, as the specification states it: when the child exits or is killed
\* before its SIGSTOP stop was observed, wait returns an error and not an
\* exit code.
C12_HandshakeDeathIsError ==
    DiedInHandshake /\ caller = "waited" =>
        wait_result # None /\ Unwrap(wait_result)[1] = "Err"

\* C12, as the code has it: when the child exits with c or is killed by s
\* before its SIGSTOP stop was observed, the handshake loop returns Ok(c) or
\* Ok(128 + s), and wait, once it returns, returns that value.
C12_HandshakeDeathIsExitCode ==
    /\ HandshakeReturnsCode
    /\ DiedInHandshake =>
          /\ worker = "done"
          /\ result = Some(Ok(CodeOf(Unwrap(first_terminal))))
          /\ caller = "waited" =>
                wait_result = Some(Ok(CodeOf(Unwrap(first_terminal))))

\* A child killed before its SIGSTOP stop was observed, and wait's value.
C12_Witness ==
    /\ DiedInHandshake
    /\ first_terminal = Some(Signaled("SIGKILL"))
    /\ caller = "waited"
    /\ wait_result = Some(Ok(137))

\* spawn_traced has returned the error of command.spawn().
SpawnFailed == caller = "spawn_failed"

\* C13: when the process cannot be created, spawn_traced returns the error;
\* from then on there is no child and no worker thread, no wait or tracing
\* call has been issued, and nothing is tried again.
C13_SpawnFailureIsFinal ==
    /\ [](SpawnFailed =>
            /\ child = "none" /\ worker = "idle"
            /\ ncalls = 0 /\ obs.issuers = {}
            /\ result = None /\ wait_result = None)
    /\ [][SpawnFailed => SpawnFailed' /\ UNCHANGED <<worker, child, ncalls>>]_vars

\* spawn_traced returned the error of a command whose output was piped.
C13_Witness ==
    /\ SpawnFailed /\ command.stdout
    /\ handles = [stdout |-> None, stderr |-> None]
    /\ worker = "idle"

\* The first rule of the list among the matching rules of maximal guest
\* length; 0 when no rule matches.
FirstLongest ==
    CHOOSE w \in {IF l = {} THEN 0 ELSE CHOOSE i \in l : \A j \in l : i <= j :
                     l \in {Longest}} : TRUE

\* What rule i makes of the path.
BuiltFrom(i) == Some(join_path(binds[i][1], DropFirst(path, Len(binds[i][2]))))

\* C14: among the matching rules whose guest prefixes have the same maximal
\* length, resolve_bind builds its result from the one that stands first in
\* the rule list.
C14_FirstOfEqualGuestsWins ==
    ResolveDone =>
        \E w \in {FirstLongest} : w # 0 => resolved[1] = BuiltFrom(w)

\* Two rules with the same guest prefix and different host prefixes both
\* match; the result is the first rule's and differs from the second's.
C14_Witness ==
    /\ ResolveDone
    /\ Len(binds) = 2
    /\ Longest = {1, 2}
    /\ binds[1][2] = binds[2][2]
    /\ binds[1][1] # binds[2][1]
    /\ resolved[1] = BuiltFrom(1)
    /\ resolved[1] # BuiltFrom(2)

\* The host prefix of rule w and the suffix rule w leaves of the path.
HostOf(w) == binds[w][1]

SuffixBy(w) == DropFirst(path, Len(binds[w][2]))

\* Whether one side of the join supplies the separator.
HostSupplies(h) == h # <<>> /\ h[Len(h)] = SLASH

SuffixSupplies(x) == x # <<>> /\ x[1] = SLASH

\* C15: for the winning rule (host, guest) and the suffix s of the path, the
\* result is host when s is empty, host followed by s when host ends with
\* '/' or s starts with '/', and host, '/', s otherwise: one '/' is added
\* exactly when s is not empty and neither side supplies one, and no byte of
\* host or s is dropped.
C15_JoinInsertsOnlyMissingSeparator ==
    ResolveDone =>
        \E w \in {FirstLongest} : w # 0 =>
        \E h \in {HostOf(w)} : \E x \in {SuffixBy(w)} :
            /\ resolved[1] # None
            /\ x = <<>> => Unwrap(resolved[1]) = h
            /\ x # <<>> /\ (HostSupplies(h) \/ SuffixSupplies(x)) =>
                  Unwrap(resolved[1]) = h \o x
            /\ x # <<>> /\ ~HostSupplies(h) /\ ~SuffixSupplies(x) =>
                  Unwrap(resolved[1]) = h \o <<SLASH>> \o x
            /\ Len(Unwrap(resolved[1])) \in {Len(h) + Len(x), Len(h) + Len(x) + 1}

\* Both sides supply a separator and both are kept.
C15_Witness ==
    /\ ResolveDone /\ FirstLongest # 0
    /\ HostSupplies(HostOf(FirstLongest)) /\ SuffixSupplies(SuffixBy(FirstLongest))
    /\ resolved[1] = Some(HostOf(FirstLongest) \o SuffixBy(FirstLongest))

\* Neither side supplies a separator and one is added.
C15_SeparatorAdded ==
    /\ ResolveDone /\ FirstLongest # 0
    /\ ~HostSupplies(HostOf(FirstLongest))
    /\ SuffixBy(FirstLongest) # <<>> /\ ~SuffixSupplies(SuffixBy(FirstLongest))
    /\ resolved[1] = Some(HostOf(FirstLongest) \o <<SLASH>> \o SuffixBy(FirstLongest))

\* The path the first call of resolve_bind returned.
Output == Unwrap(resolved[1])

ResolvedAgain == ResolveDone /\ resolved[1] # None /\ reapplied # <<>>

\* No rule of the list has a guest prefix that matches q.
NoRuleMatches(q) == \A i \in 1..Len(binds) : ~SegmentPrefix(binds[i][2], q)

\* C16: when resolve_bind(p, R) = Some(q) and no rule of R has a guest prefix
\* matching q, resolve_bind(q, R) = None.
C16_UnmatchedOutputResolvesToNone ==
    (ResolvedAgain /\ NoRuleMatches(Output)) => reapplied[1] = None

\* A path was resolved by a rule to an output that no rule matches, and the
\* second call returned None.
C16_Witness ==
    /\ ResolvedAgain
    /\ binds # <<>>
    /\ Output # path
    /\ NoRuleMatches(Output)
    /\ reapplied[1] = None

\* The precondition matters: an output that a rule matches is resolved again.
C16_MatchedOutputResolvedAgain ==
    ResolvedAgain /\ ~NoRuleMatches(Output) /\ reapplied[1] # None

\* The odd numbers up to n: the syscall-boundary stops that are entries.
OddUpTo(n) == {k \in 1..n : k % 2 = 1}

\* The statuses of the tracing phase that are not syscall-boundary stops and
\* do not end the loop.
OtherStops ==
    {Stopped(s) : s \in SelfSignals \cup TerminationSignals \cup {"SIGSTOP"}}
        \cup {PtraceEvent, Status("Continued", "", 0),
              Status("StillAlive", "", 0)}

\* The match of the tracing loop negates the flag on a syscall-boundary stop,
\* going to handle_syscall when the flag was false, and leaves the flag alone
\* on every other stop.
TogglesOnSyscallStopsOnly ==
    \A b \in BOOLEAN :
        /\ trace_next(PtraceSyscall, b).in_syscall = ~b
        /\ trace_next(PtraceSyscall, b).worker = "tr_handle" <=> ~b
        /\ \A st \in OtherStops :
              /\ trace_next(st, b).in_syscall = b
              /\ trace_next(st, b).worker # "tr_handle"

\* C17: the flag is toggled by every syscall-boundary stop of the tracing
\* phase and by no other status; handle_syscall has been invoked for exactly
\* the odd-numbered syscall-boundary stops (the latest one being handled
\* next when the worker stands before the call), never for an even one.
C17_InterceptsOddBoundaryStops ==
    /\ TogglesOnSyscallStopsOnly
    /\ obs # <<>> =>
          /\ in_syscall <=> obs.nsys % 2 = 1
          /\ worker = "tr_handle" =>
                obs.nsys % 2 = 1 /\ obs.last = Some(PtraceSyscall)
          /\ obs.handled = OddUpTo(obs.nsys) \
                             (IF worker = "tr_handle" THEN {obs.nsys} ELSE {})

\* After the third syscall-boundary stop a signal stop was reported; the
\* first and third stops were intercepted, the second was not, and the
\* supervisor still expects an exit.
C17_Witness ==
    /\ worker = "tr_resume"
    /\ obs.last = Some(Stopped("SIGCHLD"))
    /\ obs.nsys = 3
    /\ obs.handled = {1, 3}
    /\ in_syscall

\* Four syscall-boundary stops, the fourth with an event stop before it.
C17_FourStops ==
    obs # <<>> /\ obs.nsys = 4 /\ obs.handled = {1, 3} /\ PtraceEvent \in seen

\* The signal a resume request has to carry for the status it answers.
Forwarded(st) ==
    IF st.kind = "Stopped" /\ st.sig # "SIGTRAP" THEN Some(st.sig) ELSE None

\* The statuses of the tracing phase that are answered by a resume request.
AnsweredStops == (OtherStops \ {Status("StillAlive", "", 0)}) \cup {PtraceSyscall}

\* The latest resume request was issued in the tracing phase (the first one
\* of a session is the handshake's).
ResumedWhileTracing == obs # <<>> /\ obs.resumes > 1

\* The match of the tracing loop hands each stop the signal to forward.
MatchForwards ==
    \A b \in BOOLEAN : \A st \in AnsweredStops :
        /\ trace_next(st, b).deliver = Forwarded(st)
        /\ trace_next(st, b).worker \in {"tr_resume", "tr_handle"}

\* C18: in the tracing phase the resume request for a signal stop with a
\* signal s other than SIGTRAP carries s, and the resume request for a
\* SIGTRAP stop, a syscall-boundary stop, an event stop or a 'continued'
\* notification carries no signal.
C18_ResumeForwardsSignal ==
    /\ MatchForwards
    /\ worker \in {"tr_handle", "tr_resume"} =>
          deliver = Forwarded(Unwrap(obs.last))
    /\ ResumedWhileTracing =>
          /\ Unwrap(obs.answer).to # None
          /\ Unwrap(obs.answer).sig = Forwarded(Unwrap(Unwrap(obs.answer).to))

\* A SIGTERM stop was answered by a resume request carrying SIGTERM, which
\* ended the child.
C18_Witness ==
    /\ ResumedWhileTracing
    /\ obs.answer = Some([to |-> Some(Stopped("SIGTERM")), sig |-> Some("SIGTERM")])
    /\ notif = Some(Signaled("SIGTERM"))

\* A SIGTRAP stop was answered by a resume request without a signal.
C18_TrapSwallowed ==
    /\ ResumedWhileTracing
    /\ obs.answer = Some([to |-> Some(Stopped("SIGTRAP")), sig |-> None])

\* The supervisor has observed the child's self-raised stop.
StopObserved == Stopped("SIGSTOP") \in seen

\* The worker is in the tracing loop of lines 492-516.
Tracing == worker \in {"tr_wait", "tr_handle", "tr_resume"}

\* C19: before the child's SIGSTOP stop is observed no option is set, no
\* resume request is issued and handle_syscall is not invoked; setoptions is
\* called once, with both options, before the first resume request, which is
\* issued only if that call succeeded; and the first syscall-boundary stop
\* after the handshake is handled as a syscall entry.
C19_HandshakeOrder ==
    obs # <<>> =>
        /\ ~StopObserved =>
              obs.setopts = 0 /\ obs.resumes = 0 /\ obs.handled = {} /\ ~Tracing
        /\ obs.setopts <= 1
        /\ obs.resumes > 0 => obs.setopts = 1 /\ obs.options = options
        /\ worker = "hs_resume" => obs.setopts = 1 /\ obs.resumes = 0
        /\ Tracing => obs.resumes > 0
        /\ obs.nsys = 0 => ~in_syscall /\ obs.handled = {}
        /\ obs.nsys = 1 => (worker = "tr_handle" \/ 1 \in obs.handled)

\* The first syscall-boundary stop after the handshake, about to be handed
\* to handle_syscall: options set once, one resume request so far.
C19_Witness ==
    /\ StopObserved
    /\ obs.setopts = 1 /\ obs.options = options
    /\ obs.resumes = 1
    /\ obs.nsys = 1 /\ obs.last = Some(PtraceSyscall)
    /\ worker = "tr_handle"

\* C20: every wait, set-options, resume, register and memory call is issued
\* by the worker thread, while the caller's thread of spawn_traced issues
\* none: a step that issues calls leaves the caller where it is, a step of
\* the caller issues no call and takes no status of the child, and
\* spawn_traced hands over the TracedChild whatever the child has done.
C20_OnlyWorkerIssuesTracingCalls ==
    /\ [](obs.issuers \subseteq {"worker"})
    /\ [](ncalls > 0 => obs.issuers = {"worker"} /\ worker # "idle")
    /\ [][ncalls' # ncalls => UNCHANGED callerVars]_vars
    /\ [][caller' # caller => UNCHANGED <<ncalls, seen, notif, obs>>]_vars
    /\ [][(caller = "threaded" /\ caller' = "handed") =>
            UNCHANGED <<workerVars, childVars>>]_vars

\* A session traced from the handshake to the child's exit, four syscall
\* stops included, by the worker alone while the caller held the TracedChild
\* without waiting.
C20_Witness ==
    /\ caller = "handed"
    /\ worker = "done"
    /\ obs.issuers = {"worker"}
    /\ obs.nsys = 4
    /\ first_terminal = Some(Exited(42))
    /\ hs # <<>> /\ \E i \in 1..Len(hs[1].calls) : hs[1].calls[i].op = "poke"

(***************************************************************************)
(* Failures inside the rewriting of one stop.                              *)
(***************************************************************************)

\* The log entries of the last handle_syscall call with the given outcome.
EntriesWith(outcome) ==
    IF hs = <<>> THEN {}
    ELSE {k \in 1..Len(hs[1].log) : hs[1].log[k].outcome = outcome}

WriteFailed == EntriesWith("write_failed") # {}

\* C21: a remote memory write that fails while one path argument is being
\* rewritten is not fatal: handle_syscall returns success, the tracee's memory
\* and registers are as they were at the stop, and the trace loop goes on to
\* resume the child instead of returning an error.
C21_WriteFailureNotFatal ==
    WriteFailed =>
        /\ hs[1].ok
        /\ mem = entry.mem /\ regs = entry.regs
        /\ ~(worker = "done" /\ result = Some(Err("handle_syscall")))

\* What the code does instead: the failed write is the last call the loop
\* issues, the child is left in its syscall-entry stop and wait hands the
\* error to the caller.
C21_WriteFailureEndsSession ==
    /\ WriteFailed
    /\ ~hs[1].ok
    /\ obs.failed # None /\ Unwrap(obs.failed).call = "poke"
    /\ ncalls = Unwrap(obs.failed).at
    /\ child = "stopped"
    /\ caller = "waited" /\ wait_result = Some(Err("handle_syscall"))

\* The calls handle_syscall issued while it processed the k-th logged
\* argument (call 1 is get_regs).
CallsOf(k) ==
    LET from == IF k = 1 THEN 1 ELSE hs[1].log[k - 1].calls_end
    IN  {hs[1].calls[j] : j \in (from + 1)..hs[1].log[k].calls_end}

OpsOf(k) == {c.op : c \in CallsOf(k)}

LastCall == hs[1].calls[Len(hs[1].calls)]

SetRegsFailed == hs # <<>> /\ ~hs[1].ok /\ LastCall.op = "setregs"

\* handle_syscall went through every non-null path slot, in order.
AllProcessed ==
    LET NonNull(i) == entry.regs.args[i] # 0
        args == SelectSeq(syscall_path_args(arch, entry.regs.sysno), NonNull)
    IN  /\ Len(hs[1].log) = Len(args)
        /\ \A k \in 1..Len(args) : hs[1].log[k].arg = args[k]

\* C22: when reading one path argument fails, nothing is written for that
\* argument and its register slot is unchanged; unless a later write fails,
\* every other path argument of the syscall is still processed; unless a
\* write or the register write-back fails, handle_syscall returns success and
\* the trace loop does not return its error.
C22_ReadFailureSkipsArgument ==
    \A k \in EntriesWith("read_failed") :
        /\ "poke" \notin OpsOf(k)
        /\ regs.args[hs[1].log[k].arg] = entry.regs.args[hs[1].log[k].arg]
        /\ ~WriteFailed => AllProcessed
        /\ (~WriteFailed /\ ~SetRegsFailed) =>
              /\ hs[1].ok
              /\ result # Some(Err("handle_syscall"))

\* The first pointer of a rename is unreadable, the second path is relocated,
\* and the loop has resumed the child and waits for the next stop.
C22_Witness ==
    /\ \E k \in EntriesWith("read_failed") :
          /\ "peek" \in OpsOf(k)
          /\ EntriesWith("relocated") = {k + 1}
    /\ hs[1].ok
    /\ regs.args[0] = entry.regs.args[0]
    /\ regs.args[1] # entry.regs.args[1]
    /\ worker = "tr_wait" /\ result = None

(***************************************************************************)
(* The scratch cursor and the relocation of oversized paths.               *)
(***************************************************************************)

\* Where the cursor starts at a stop: the stack pointer, less the red zone
\* on x86_64 (never below zero).
StartCursor ==
    IF arch = "x86_64"
    THEN (IF entry.regs.sp > RED_ZONE THEN entry.regs.sp - RED_ZONE ELSE 0)
    ELSE entry.regs.sp

CursorBefore(k) == IF k = 1 THEN StartCursor ELSE hs[1].log[k - 1].cursor

\* The bytes a relocated copy of the k-th logged argument's new path needs.
Need(k) == ((Len(hs[1].log[k].new_path) + 1 + WORD - 1) \div WORD) * WORD

Oversized(k) ==
    /\ hs[1].log[k].outcome \notin {"read_failed", "no_rewrite"}
    /\ Len(hs[1].log[k].new_path) > hs[1].log[k].old_len

\* The start of the stack as the lookup of this stop reports it.
FoundStart == IF stack_map = None THEN None ELSE Some(Unwrap(stack_map)[1])

\* The carve of the k-th argument underflows, or the lookup found the stack
\* and the carved address leaves less than a word above its start.
DoesNotFit(k) ==
    /\ Oversized(k)
    /\ \/ CursorBefore(k) < Need(k)
       \/ /\ FoundStart # None
          /\ CursorBefore(k) - Need(k) < Unwrap(FoundStart) + WORD

\* The carve underflows or falls below the lowest mapped address of the
\* stack, whether or not the lookup found it.
FallsBelowStack(k) ==
    /\ Oversized(k)
    /\ \/ CursorBefore(k) < Need(k)
       \/ CursorBefore(k) - Need(k) < StackLo

\* The interceptor fails open for the k-th logged argument.
FailsOpen(k) ==
    /\ hs[1].log[k].outcome = "no_fit"
    /\ "poke" \notin OpsOf(k)
    /\ regs.args[hs[1].log[k].arg] = entry.regs.args[hs[1].log[k].arg]
    /\ hs[1].log[k].cursor = CursorBefore(k)
    /\ ~WriteFailed => AllProcessed
    /\ (~WriteFailed /\ ~SetRegsFailed) => hs[1].ok

C23_WitnessUnderflow ==
    /\ hs # <<>> /\ hs[1].ok
    /\ \E k \in 1..Len(hs[1].log) :
          /\ Oversized(k) /\ CursorBefore(k) < Need(k)
          /\ hs[1].log[k].outcome = "no_fit"

\* The logged arguments for which a range was carved below the cursor.
Carved ==
    IF hs = <<>> THEN {}
    ELSE {k \in 1..Len(hs[1].log) :
            /\ Oversized(k)
            /\ hs[1].log[k].outcome \in {"relocated", "write_failed"}}

\* C24: every range carved for a relocated argument lies at or above the
\* lowest mapped address of the tracee's stack, and the cursor is not below
\* that address after any carve, also in stops whose lookup of the stack
\* region yields no result.
C24_CarvedAboveStack ==
    \A k \in Carved :
        /\ hs[1].log[k].write_addr >= StackLo
        /\ hs[1].log[k].cursor >= StackLo

\* What the code guarantees: when the lookup found the stack, every carved
\* range starts at least one word above its start and the cursor stays there.
C24_CarvedAboveFoundStart ==
    FoundStart # None =>
        \A k \in Carved :
            /\ hs[1].log[k].write_addr >= Unwrap(FoundStart) + WORD
            /\ hs[1].log[k].cursor = hs[1].log[k].write_addr

\* The lookup yields nothing, the second relocation is carved below the stack
\* and handle_syscall fails on the write it attempts there.
C24_CarvedBelowStack ==
    /\ stack_map = None
    /\ \E k \in Carved :
          /\ k > 1 /\ hs[1].log[k - 1].outcome = "relocated"
          /\ hs[1].log[k].write_addr < StackLo
          /\ hs[1].log[k].cursor < StackLo
          /\ hs[1].log[k].outcome = "write_failed"
    /\ ~hs[1].ok

\* How often handle_syscall read the memory map at this stop.
MapReads ==
    Cardinality({j \in 1..Len(hs[1].calls) : hs[1].calls[j].op = "maps"})

\* The logged arguments whose new path is longer than the old one.
NeedRelocation == {k \in 1..Len(hs[1].log) : Oversized(k)}

\* C25: the memory map is read at most once per stop: never when no argument
\* needs relocation, and exactly once when two or more arguments need it,
\* whether the lookup finds the stack or not.
C25_StackQueriedOnce ==
    hs # <<>> =>
        /\ MapReads <= 1
        /\ NeedRelocation = {} => MapReads = 0
        /\ Cardinality(NeedRelocation) >= 2 => MapReads = 1

\* What the code does: one read at the first relocation when the lookup finds
\* the stack, and one read per relocation when it finds nothing.
C25_QueriedUntilFound ==
    hs # <<>> =>
        MapReads = IF NeedRelocation = {} THEN 0
                   ELSE IF FoundStart # None THEN 1
                   ELSE Cardinality(NeedRelocation)

\* Two relocations in a stop whose lookup finds nothing: the map is read twice.
C25_QueriedTwice ==
    /\ hs # <<>> /\ hs[1].ok
    /\ stack_map = None
    /\ Cardinality(EntriesWith("relocated")) = 2
    /\ MapReads = 2

(***************************************************************************)
(* Register write-back, in-place rewriting and the fast paths.             *)
(***************************************************************************)

SetRegsCalls == {j \in 1..Len(hs[1].calls) : hs[1].calls[j].op = "setregs"}

\* The logged arguments whose slot was pointed at a new address.
RelocatedToNew ==
    {k \in 1..Len(hs[1].log) :
        /\ hs[1].log[k].outcome = "relocated"
        /\ hs[1].log[k].write_addr # hs[1].log[k].addr}

\* C26: at a stop the registers are written back at most once; the write is
\* the last call of the stop and comes after every path argument has been
\* processed; it is made only if an argument was relocated to a new address,
\* and it is made whenever one was and the processing was not cut short by a
\* failed write; without it the registers are those of the stop.
C26_RegistersWrittenOnceIfRelocated ==
    hs # <<>> =>
        /\ Cardinality(SetRegsCalls) <= 1
        /\ \A j \in SetRegsCalls :
              /\ j = Len(hs[1].calls)
              /\ AllProcessed
              /\ j > hs[1].log[Len(hs[1].log)].calls_end
        /\ SetRegsCalls # {} => RelocatedToNew # {}
        /\ (RelocatedToNew # {} /\ ~WriteFailed) => SetRegsCalls # {}
        /\ (SetRegsCalls = {} \/ ~hs[1].ok) => regs = entry.regs
        /\ hs[1].ok =>
              \A k \in 1..Len(hs[1].log) :
                  regs.args[hs[1].log[k].arg] =
                      IF k \in RelocatedToNew THEN hs[1].log[k].write_addr
                      ELSE hs[1].log[k].addr

\* One argument rewritten in place and one relocated: one register write, last.
C26_Witness ==
    /\ hs # <<>> /\ hs[1].ok
    /\ EntriesWith("in_place") # {}
    /\ RelocatedToNew # {}
    /\ SetRegsCalls = {Len(hs[1].calls)}
    /\ regs # entry.regs

\* Every rewrite of the stop is in place: memory changes, no register write.
C26_WitnessInPlace ==
    /\ hs # <<>> /\ hs[1].ok
    /\ Len(hs[1].log) = 2
    /\ EntriesWith("in_place") # {}
    /\ EntriesWith("relocated") = {}
    /\ mem # entry.mem
    /\ SetRegsCalls = {}

\* The tracee's memory before the k-th logged argument was processed.
MemBefore(k) == IF k = 1 THEN entry.mem ELSE hs[1].log[k - 1].mem_after

\* The logged arguments whose string was read and resolves to another path.
Rewritable ==
    IF hs = <<>> THEN {}
    ELSE {k \in 1..Len(hs[1].log) :
            /\ hs[1].log[k].outcome # "read_failed"
            /\ \E q \in {resolve_bind(from_utf8_lossy(
                             CStr(MemBefore(k), hs[1].log[k].addr)), binds)} :
                  /\ q # None
                  /\ Unwrap(q) # from_utf8_lossy(
                                     CStr(MemBefore(k), hs[1].log[k].addr))}

\* The new path of a rewritable argument and the byte length of its old string.
NewPath(k) ==
    Unwrap(resolve_bind(from_utf8_lossy(CStr(MemBefore(k), hs[1].log[k].addr)),
                        binds))

OldLen(k) == CStrLen(MemBefore(k), hs[1].log[k].addr)

\* Memory after the k-th argument is memory before it with the new path and
\* then NULs in [addr, addr + old_len], and nothing else changed.
OverwrittenInPlace(k) ==
    LET a == hs[1].log[k].addr
        q == NewPath(k)
    IN  \A x \in Addrs :
            hs[1].log[k].mem_after[x] =
                IF x < a \/ x > a + OldLen(k) THEN MemBefore(k)[x]
                ELSE IF x - a < Len(q) THEN q[x - a + 1]
                ELSE 0

\* C27: an argument that resolves to another path is rewritten in place
\* exactly when the new path is at most as long as the old string; then the
\* old_len + 1 bytes at the original address hold the new path followed by
\* NULs up to the old terminator's position, no other byte of memory changes,
\* and the argument's register slot is not changed.
C27_InPlaceWhenNotLonger ==
    \A k \in Rewritable :
        /\ Len(NewPath(k)) <= OldLen(k) =>
              /\ hs[1].log[k].outcome \in {"in_place", "write_failed"}
              /\ hs[1].log[k].write_addr = hs[1].log[k].addr
        /\ Len(NewPath(k)) > OldLen(k) => hs[1].log[k].outcome # "in_place"
        /\ hs[1].log[k].outcome = "in_place" =>
              /\ OverwrittenInPlace(k)
              /\ hs[1].log[k].cursor = CursorBefore(k)
              /\ regs.args[hs[1].log[k].arg] = entry.regs.args[hs[1].log[k].arg]

\* A string overwritten in place by a path at least two bytes shorter: the
\* byte after the new terminator, which held a byte of the old string, is NUL.
C27_Witness ==
    \E k \in Rewritable :
        /\ hs[1].log[k].outcome = "in_place"
        /\ Len(NewPath(k)) < OldLen(k)
        /\ MemBefore(k)[hs[1].log[k].addr + Len(NewPath(k)) + 1] # 0
        /\ hs[1].log[k].mem_after[hs[1].log[k].addr + Len(NewPath(k)) + 1] = 0
        /\ hs[1].ok

GetRegsFailed == hs # <<>> /\ ~hs[1].ok /\ hs[1].calls = <<Call("getregs", 0)>>

\* C28: at a stop of a syscall with no path slots, or whose path slots all
\* hold a null pointer, the interceptor issues no call but the register read,
\* leaves the tracee's memory and registers exactly as they were, and returns
\* success unless that register read failed.
C28_NothingToRewriteTouchesNothing ==
    (hs # <<>> /\ NonNullPathSlots = {}) =>
        /\ \A j \in 1..Len(hs[1].calls) : hs[1].calls[j].op = "getregs"
        /\ Len(hs[1].calls) <= 1
        /\ hs[1].log = <<>>
        /\ mem = entry.mem
        /\ regs = entry.regs
        /\ ~GetRegsFailed => hs[1].ok

\* A rename whose two path pointers are null, with rules to apply.
C28_Witness ==
    /\ hs # <<>> /\ hs[1].ok
    /\ binds # <<>>
    /\ PathSlots # {} /\ NonNullPathSlots = {}
    /\ hs[1].calls = <<Call("getregs", 0)>>
    /\ mem = entry.mem /\ regs = entry.regs

\* A syscall that is not in the table, with rules to apply.
C28_WitnessNoSlots ==
    /\ hs # <<>> /\ hs[1].ok
    /\ binds # <<>>
    /\ PathSlots = {}
    /\ \E i \in 0..5 : entry.regs.args[i] # 0
    /\ hs[1].calls = <<Call("getregs", 0)>>

\* The byte range carved for the k-th logged argument.
CarvedRange(k) ==
    hs[1].log[k].write_addr..(hs[1].log[k].write_addr + Need(k) - 1)

\* The bytes the k-th logged argument's write calls touched.
PokedBytes(k) ==
    UNION {c.addr..(c.addr + WORD - 1) : c \in {d \in CallsOf(k) : d.op = "poke"}}

\* C29: within one stop the scratch cursor starts at the stack pointer less
\* the red zone (128 on x86_64, 0 on aarch64; not below zero), the red zone
\* being taken off once; it moves only at a relocation, and then down by the
\* new path's length plus one rounded up to the word size, to the address
\* the path is written at; the carved ranges of different arguments are
\* disjoint, and every byte written for a relocation lies in its carved
\* range, below the cursor's starting value.
C29_ScratchCursorMovesDown ==
    hs # <<>> =>
        /\ \A k \in 1..Len(hs[1].log) :
              /\ k \notin Carved => hs[1].log[k].cursor = CursorBefore(k)
              /\ k \in Carved =>
                    /\ hs[1].log[k].cursor = CursorBefore(k) - Need(k)
                    /\ hs[1].log[k].write_addr = hs[1].log[k].cursor
                    /\ PokedBytes(k) \subseteq CarvedRange(k)
                    /\ \A x \in CarvedRange(k) : x < StartCursor
              /\ hs[1].log[k].cursor <= StartCursor
        /\ \A k, l \in Carved :
              k # l => CarvedRange(k) \cap CarvedRange(l) = {}

\* Two relocations on x86_64: the second path sits below the first, which
\* sits one red zone below the stack pointer.
C29_Witness ==
    /\ hs # <<>> /\ hs[1].ok
    /\ arch = "x86_64"
    /\ Len(hs[1].log) = 2
    /\ EntriesWith("relocated") = {1, 2}
    /\ hs[1].log[1].write_addr = entry.regs.sp - RED_ZONE - Need(1)
    /\ hs[1].log[2].write_addr = entry.regs.sp - RED_ZONE - Need(1) - Need(2)
    /\ PokedBytes(2) # {}

(***************************************************************************)
(* read_c_string.                                                          *)
(***************************************************************************)

ReadDone == cstr # <<>> /\ cstr.res # <<>>

\* The offsets from the string's address, below the cap, that hold a NUL.
NulsAt ==
    {k \in 0..(MAX_PATH - 1) :
        cstr.addr + k \in DOMAIN mem /\ mem[cstr.addr + k] = 0}

\* The number of bytes before the first NUL, or the cap if there is none.
RawLen ==
    CHOOSE n \in {IF nuls = {} THEN MAX_PATH
                  ELSE CHOOSE k \in nuls : \A j \in nuls : k <= j :
                     nuls \in {NulsAt}} : TRUE

\* The index of the last word a call has to read when n bytes precede the
\* first NUL: the one holding the NUL, or the last one that starts below
\* the cap.
LastWord(n) ==
    IF n = MAX_PATH THEN (MAX_PATH - 1) \div WORD ELSE n \div WORD

\* The words among those that are not wholly mapped.
UnreadableWords(n) ==
    {i \in 0..LastWord(n) :
        \E k \in 0..(WORD - 1) : cstr.addr + WORD * i + k \notin DOMAIN mem}

\* The first n bytes at the string's address.
RawBytes(n) == [k \in 1..n |-> mem[cstr.addr + k - 1]]

\* The word reads of words 0..w, in order.
WordReads(w) == [i \in 1..(w + 1) |-> Call("peek", cstr.addr + WORD * (i - 1))]

\* What holds of a call with result r when n bytes precede the first NUL (or
\* n is the cap) and bad are the unreadable words: the call fails exactly
\* when bad is not empty, and has then read the words up to the first of
\* them; otherwise it has read the words up to the one with the NUL and no
\* other, the first 4096 bytes at most, and the length it returns is n.
ReadsUpToNul(r, n, bad) ==
    /\ r.ok = (bad = {})
    /\ ~r.ok => r.calls = WordReads(CHOOSE i \in bad : \A j \in bad : i <= j)
    /\ r.ok =>
          /\ r.len = n
          /\ r.len <= MAX_PATH
          /\ r.calls = WordReads(LastWord(n))
    /\ \A j \in 1..Len(r.calls) :
          /\ r.calls[j].addr < cstr.addr + MAX_PATH
          /\ r.calls[j].addr <= cstr.addr + WORD * LastWord(n)

C30_WitnessLossy ==
    /\ ReadDone /\ cstr.res[1].ok
    /\ cstr.res[1].len < Len(cstr.res[1].path)

\* The NUL is mapped but the word that holds it is not wholly mapped.
C30_WitnessFailedRead ==
    /\ ReadDone /\ ~cstr.res[1].ok
    /\ NulsAt # {}
    /\ Len(cstr.res[1].calls) > 1

(***************************************************************************)
(* write_bytes.                                                            *)
(***************************************************************************)

WriteDone == wbytes # <<>> /\ wbytes.res # <<>>

\* The addresses the payload is meant for.
PayloadRange == wbytes.addr..(wbytes.addr + Len(wbytes.bytes) - 1)

\* C31: after write_bytes succeeds, the tracee's memory holds the payload in
\* [addr, addr + len) and every byte outside that range is as it was, for
\* lengths that are multiples of the word size and for those that are not;
\* with an empty payload the call succeeds and issues no read and no write.
C31_WriteBytesFrame ==
    WriteDone =>
        /\ wbytes.res[1].ok =>
              \A x \in DOMAIN mem :
                  mem[x] = IF x \in PayloadRange
                           THEN wbytes.bytes[x - wbytes.addr + 1]
                           ELSE wbytes.before[x]
        /\ wbytes.bytes = <<>> =>
              /\ wbytes.res[1].ok
              /\ wbytes.res[1].calls = <<>>
              /\ mem = wbytes.before

\* Eleven or more bytes written inside a word: the last word is partial, the
\* byte before the payload and the byte after it keep their values, and the
\* payload has replaced what was there.
C31_Witness ==
    /\ WriteDone /\ wbytes.res[1].ok
    /\ wbytes.addr % WORD # 0
    /\ Len(wbytes.bytes) > WORD /\ Len(wbytes.bytes) % WORD # 0
    /\ mem[wbytes.addr - 1] = wbytes.before[wbytes.addr - 1]
    /\ mem[wbytes.addr + Len(wbytes.bytes)] # 0
    /\ mem[wbytes.addr + Len(wbytes.bytes)] =
          wbytes.before[wbytes.addr + Len(wbytes.bytes)]
    /\ \A x \in PayloadRange : mem[x] # wbytes.before[x]

\* An empty payload for an address where nothing can be written.
C31_WitnessEmpty ==
    /\ WriteDone /\ wbytes.res[1].ok
    /\ wbytes.bytes = <<>>
    /\ wbytes.writable = {}

\* A payload that runs out of the mapped region: the call fails after the
\* words before the unmapped one were written.
C31_WitnessPartlyWritten ==
    /\ WriteDone /\ ~wbytes.res[1].ok
    /\ wbytes.writable # {}
    /\ mem # wbytes.before

(***************************************************************************)
(* Stops and their resumes; what the loop touches outside entry stops.     *)
(***************************************************************************)

\* The worker is about to block in waitpid, or blocks in it.
WorkerWaits == worker \in {"hs_wait", "tr_wait"}

\* The child sits in a stop whose notification the worker has already taken.
HeldInObservedStop == child = "stopped" /\ notif = None

\* C32: the supervisor never waits while the child is held in a stop that it
\* has observed and not resumed: every stop it is told of, the handshake
\* stop and a signal stop before it included, is answered by a resume before
\* the next wait.
C32_NeverWaitsOnHeldChild == ~(WorkerWaits /\ HeldInObservedStop)

\* What the code guarantees: once the handshake stop has been observed, the
\* supervisor does not wait on a child it holds in a stop.
C32_TracingStopsAnswered == ~(worker = "tr_wait" /\ HeldInObservedStop)

\* A signal stop taken by the handshake loop before the SIGSTOP stop: the
\* loop is back at waitpid, no resume was ever issued, the child is held.
C32_HandshakeWaitsOnHeldChild ==
    /\ worker = "hs_wait"
    /\ HeldInObservedStop
    /\ obs.last # None /\ Unwrap(obs.last).kind = "Stopped"
    /\ Unwrap(obs.last).sig # "SIGSTOP"
    /\ obs.resumes = 0

\* A step in which the supervisor reads or writes the tracee's registers or
\* memory: handle_syscall has run, or the memory has changed.
TouchesTracee == mem' # mem \/ (hs' # hs /\ hs' # <<>>)

\* The stop last reported is a syscall-boundary stop at the entry of a
\* syscall (the child may have been killed since).
AtEntryStop ==
    /\ ch_insys
    /\ obs.last # None /\ Unwrap(obs.last).kind = "PtraceSyscall"
    /\ obs.nsys % 2 = 1

\* The tracee's memory as a handle_syscall call left it.
MemLeftBy(h, e) ==
    IF h.log = <<>> THEN e.mem ELSE h.log[Len(h.log)].mem_after

\* C33: the supervisor reads and writes the tracee's registers and memory
\* only while it handles a syscall-entry stop; the registers change otherwise
\* only by the child's own doing, and at every later stop the memory is as
\* the last handle_syscall call left it, rewritten strings included.
C33_OnlyEntryStopsTouchTracee ==
    [][/\ TouchesTracee => (worker = "tr_handle" /\ in_syscall /\ AtEntryStop)
       /\ regs' # regs => (TouchesTracee \/ child = "running")
       /\ hs' # <<>> => mem' = MemLeftBy(hs'[1], entry')]_vars

\* A string was rewritten in place at a syscall entry; the exit stop of that
\* syscall has been answered and the string is still the rewritten one.
C33_Witness ==
    /\ hs # <<>> /\ hs[1].ok
    /\ EntriesWith("in_place") # {}
    /\ obs.nsys = 2 /\ ~in_syscall
    /\ worker = "tr_wait" /\ child = "running"
    /\ mem # entry.mem
    /\ mem = MemLeftBy(hs[1], entry)

\* The calls of trace_loop that are not made by handle_syscall.
LoopCalls == {"wait", "setoptions", "resume"}

\* handle_syscall returned at once: success, no call issued, nothing logged.
ReturnedAtOnce(h) == h = [ok |-> TRUE, log |-> <<>>, calls |-> <<>>]

\* C34: with an empty rule list no step of the session reads or writes the
\* tracee's registers or memory: handle_syscall issues no call and succeeds,
\* so a syscall-entry stop leads straight to the resume request; the memory
\* stays as it was at the start and the registers change only by the child's
\* own doing; the session ends with the result of the terminal notification
\* or with the error of a failing wait, set-options or resume call.
C34_EmptyRulesNeverTouchTracee ==
    [][binds = <<>> =>
         /\ mem' = InitialMem
         /\ regs' # regs => child = "running"
         /\ hs' # <<>> => ReturnedAtOnce(hs'[1])
         /\ (worker = "tr_handle" /\ worker' # worker) =>
               /\ worker' = "tr_resume"
               /\ ncalls' = ncalls
               /\ result' = result
         /\ obs'.failed # None => Unwrap(obs'.failed).call \in LoopCalls
         /\ (worker' = "done" /\ result' # None) =>
               IF obs'.failed = None
               THEN /\ first_terminal' # None
                    /\ result' = Some(terminal_result(Unwrap(first_terminal')))
               ELSE Unwrap(result')[1] = "Err"]_vars

\* A session with an empty rule list in which two syscall-entry stops and
\* their exit stops were answered and the child has then exited.
C34_Witness ==
    /\ binds = <<>>
    /\ obs.nsys = 4 /\ obs.handled = {1, 3}
    /\ hs # <<>> /\ ReturnedAtOnce(hs[1])
    /\ worker = "done" /\ result # None /\ Unwrap(result)[1] = "Ok"
    /\ obs.failed = None

\* The same session with rules: handle_syscall has read the registers.
C34_WitnessWithRules ==
    /\ binds # <<>>
    /\ hs # <<>> /\ hs[1].calls # <<>>

\* resolve_bind applied once to p; p itself where no rule matches.
TranslatedOnce(p) ==
    IF resolve_bind(p, binds) = None THEN p ELSE Unwrap(resolve_bind(p, binds))

\* The path slots whose string could be read when the stop was reported.
ReadableSlots ==
    {i \in NonNullPathSlots :
        read_c_string(entry.mem, Mapped, entry.regs.args[i]).ok}

\* The string slot i pointed to when the stop was reported, and the one it
\* points to after handle_syscall, both as handle_syscall reads them.
OriginalPath(i) == from_utf8_lossy(CStr(entry.mem, entry.regs.args[i]))
FinalPath(i) == from_utf8_lossy(CStr(mem, regs.args[i]))

\* C35: after a successful handle_syscall every readable path slot points to
\* its original string or to resolve_bind applied once to it, also when two
\* slots hold the same address or overlapping strings.
C35_TranslatedAtMostOnce ==
    HandleSyscallOk =>
        \A i \in ReadableSlots :
            FinalPath(i) \in {OriginalPath(i), TranslatedOnce(OriginalPath(i))}

\* The same for the stops whose path strings do not overlap.
C35_DisjointTranslatedAtMostOnce ==
    (HandleSyscallOk /\ NonOverlapping) =>
        \A i \in ReadableSlots :
            FinalPath(i) \in {OriginalPath(i), TranslatedOnce(OriginalPath(i))}

\* Two slots hold the same address; the first was rewritten in place and the
\* second then points to the translation of the rewritten string.
C35_TranslatedTwice ==
    /\ HandleSyscallOk
    /\ \E i, j \in ReadableSlots :
          /\ i # j /\ entry.regs.args[i] = entry.regs.args[j]
          /\ Outcome(i) = "in_place" /\ Outcome(j) = "relocated"
          /\ FinalPath(i) = TranslatedOnce(OriginalPath(i))
          /\ FinalPath(j) # TranslatedOnce(OriginalPath(j))
          /\ FinalPath(j) = TranslatedOnce(TranslatedOnce(OriginalPath(j)))

\* Two slots with disjoint strings, both translated.
C35_WitnessDisjoint ==
    /\ HandleSyscallOk /\ NonOverlapping
    /\ \E i, j \in ReadableSlots :
          /\ i # j
          /\ FinalPath(i) # OriginalPath(i)
          /\ FinalPath(j) # OriginalPath(j)

\* handle_syscall has returned an error.
HandleSyscallErr == hs # <<>> /\ ~hs[1].ok

\* The set_regs calls among the calls of the stop, by position.
SetRegsAt == {k \in 1..Len(hs[1].calls) : hs[1].calls[k].op = "setregs"}

\* C36: when handle_syscall returns an error the tracee's registers are those
\* of the moment the stop was reported, and the only set_regs call the stop
\* can have issued is the failing one that ended it; this holds also when an
\* earlier argument was relocated in the tracee's memory.
C36_ErrorLeavesRegisters ==
    HandleSyscallErr =>
        /\ regs = entry.regs
        /\ SetRegsAt \subseteq {Len(hs[1].calls)}
        /\ SetRegsAt # {} => EntriesWith("write_failed") = {}

\* The first argument was relocated in memory, the write for the second
\* failed, and the registers are unchanged.
C36_Witness ==
    /\ HandleSyscallErr
    /\ Len(hs[1].log) = 2
    /\ hs[1].log[1].outcome = "relocated"
    /\ hs[1].log[2].outcome = "write_failed"
    /\ mem # entry.mem
    /\ SetRegsAt = {}

\* An argument was relocated in memory and the write-back of the registers
\* failed.
C36_WitnessSetRegsFailed ==
    /\ HandleSyscallErr
    /\ EntriesWith("relocated") # {}
    /\ mem # entry.mem
    /\ SetRegsAt = {Len(hs[1].calls)}

====
